---- MODULE Spec2Model ----
(***************************************************************************)
(* Model of the yaml-rust event parser (src/src/parser.rs): the pull       *)
(* interface peek()/next(), the push interface load(), the production      *)
(* state machine with its continuation stack and the anchor registry.      *)
(* The scanner (scanner.rs) is a collaborator whose source is not part of  *)
(* the tree; it is modelled from its documented contract as a token source *)
(* that produces, on demand, any token sequence that starts with           *)
(* StreamStart and ends with StreamEnd or with a latched error.            *)
(*                                                                         *)
(* Every parser function is an operator from a parser value to the SET of  *)
(* its possible outcomes: the nondeterminism is the scanner's choice of    *)
(* the next token every time the parser pulls one.                         *)
(***************************************************************************)
EXTENDS Integers, Sequences, FiniteSets, TLC

\* Bound: the number of tokens of the input stream (StreamStart and
\* StreamEnd included).
MaxTokens == 7

\* Bound: a caller that goes on after an error stops calling the parser at
\* the MaxErrors-th error it is handed.
MaxErrors == 2

\* Bound: a caller that pulls events before it calls load() goes over to
\* load() when the scanner has produced MaxPulled tokens, at the latest.
MaxPulled == 3

\* Anchor / alias names the input may use.
Names == {"a", "b"}

\* ------------------------------------------------------------------------
\* Tokens and the scanner
\* ------------------------------------------------------------------------

\* Token: tt the token type, nm the anchor/alias name, the tag or the scalar
\* text, st the scalar style, mark the marker's character index.
Tok(tt, nm, st, mark) == [tt |-> tt, nm |-> nm, st |-> st, mark |-> mark]

\* Option<Token>::None
NoTok == Tok("None", "", "", 0)

\* The token types without payload that may follow StreamStart.
BareTokenTypes ==
    { "VersionDirective", "TagDirective", "DocumentStart", "DocumentEnd",
      "BlockSequenceStart", "BlockMappingStart", "BlockEnd",
      "FlowSequenceStart", "FlowSequenceEnd", "FlowMappingStart",
      "FlowMappingEnd", "FlowEntry", "BlockEntry", "Key", "Value",
      "StreamEnd" }

\* Token type and payload of every token the scanner can produce after
\* StreamStart: nm is the anchor/alias name, the tag or the scalar text.
TokenShapes ==
    { [tt |-> t, nm |-> "", st |-> ""] : t \in BareTokenTypes }
    \cup { [tt |-> "Alias", nm |-> n, st |-> ""] : n \in Names }
    \cup { [tt |-> "Anchor", nm |-> n, st |-> ""] : n \in Names }
    \cup { [tt |-> "Tag", nm |-> "!!int", st |-> ""],
           [tt |-> "Scalar", nm |-> "v", st |-> "Plain"] }

\* Scanner::new: nothing produced, position 0, no error latched.
\*   n      tokens produced so far
\*   tmark  marker index of the last produced token
\*   ahead  how far the read position is beyond that marker
\*   flow   flow_level: the flow collections open at the read position
\*   stray  a ']' or '}' was produced at flow_level 0: it closes nothing
scanner_new ==
    [n |-> 0, tmark |-> 0, ahead |-> 0, ended |-> FALSE, err |-> FALSE,
     flow |-> 0, stray |-> FALSE]

\* increase_flow_level / decrease_flow_level around a token of type tt.
flow_level(sc, tt) ==
    CASE tt \in { "FlowSequenceStart", "FlowMappingStart" } -> sc.flow + 1
      [] tt \in { "FlowSequenceEnd", "FlowMappingEnd" } /\ sc.flow > 0 -> sc.flow - 1
      [] OTHER -> sc.flow

\* Scanner::mark(): the scanner's current position.
scanner_mark(sc) == sc.tmark + sc.ahead

stream_started(sc) == sc.n > 0

stream_ended(sc) == sc.ended

\* The shapes the next token may have: a stream of MaxTokens tokens ends
\* with StreamEnd.
NextShapes(sc) ==
    IF sc.n + 1 >= MaxTokens
    THEN { s \in TokenShapes : s.tt = "StreamEnd" }
    ELSE TokenShapes

\* Scanner::next(): the set of [sc, tok] it can answer.  After StreamEnd or
\* a latched error it answers None.  Every token starts one character after
\* the one before it, and the read position is at the first character of
\* the token produced or one beyond it (the scanner reads ahead).
scanner_next(sc) ==
    IF sc.err \/ sc.ended
    THEN { [sc |-> sc, tok |-> NoTok] }
    ELSE IF sc.n = 0
    THEN { [sc |-> [sc EXCEPT !.n = 1], tok |-> Tok("StreamStart", "", "", 0)] }
    ELSE { [sc |-> [sc EXCEPT !.err = TRUE], tok |-> NoTok] }
         \cup
         { [sc |-> [n |-> sc.n + 1, tmark |-> sc.tmark + da[1], ahead |-> da[2],
                    ended |-> (s.tt = "StreamEnd"), err |-> FALSE,
                    flow |-> flow_level(sc, s.tt),
                    stray |-> sc.stray \/ (/\ s.tt \in { "FlowSequenceEnd", "FlowMappingEnd" }
                                           /\ sc.flow = 0)],
            tok |-> Tok(s.tt, s.nm, s.st, sc.tmark + da[1])]
           : s \in NextShapes(sc), da \in { 1 } \X (0..1) }

\* ------------------------------------------------------------------------
\* Events and outcomes
\* ------------------------------------------------------------------------

\* Event: t the variant, a the anchor id (0 = None; for Alias the id),
\* v/st/tg the scalar's value, style and tag ("" = no tag).
Ev(t, a, v, st, tg) == [t |-> t, a |-> a, v |-> v, st |-> st, tg |-> tg]

\* An event without payload.
Bare(t) == Ev(t, 0, "", "", "")

\* A collection start with its optional anchor.
Start(t, anchor) == Ev(t, anchor, "", "", "")

NoEv == Bare("Nothing")

\* Event::empty_scalar
empty_scalar == Ev("Scalar", 0, "~", "Plain", "")

\* Event::empty_scalar_with_anchor without the tag.
empty_scalar_with_anchor_only(anchor, tag) == Ev("Scalar", anchor, "", "Plain", "")

\* Event::empty_scalar_with_anchor
empty_scalar_with_anchor(anchor, tag) == Ev("Scalar", anchor, "", "Plain", tag)

\* Outcome of a parser function: Ok(event, mark), Err(ScanError(mark, msg))
\* or a panic (unwrap of None, unreachable!).  met / reg record the alias
\* name looked up and the anchor name registered during the call.
OkOut(p, ev, mark) ==
    [kind |-> "ok", p |-> p, ev |-> ev, mark |-> mark, msg |-> "",
     met |-> "", reg |-> ""]

ErrOut(p, mark, msg) ==
    [kind |-> "err", p |-> p, ev |-> NoEv, mark |-> mark, msg |-> msg,
     met |-> "", reg |-> ""]

PanicOut(p) ==
    [kind |-> "panic", p |-> p, ev |-> NoEv, mark |-> 0, msg |-> "panic",
     met |-> "", reg |-> ""]

\* ------------------------------------------------------------------------
\* Parser
\* ------------------------------------------------------------------------

\* ParsedEventMarker, and Option<ParsedEventMarker>::None.
ParsedEventMarker(ev, mark) == [ev |-> ev, mark |-> mark]

NoCur == ParsedEventMarker(NoEv, 0)

\* Parser::new
parser_new ==
    [state |-> "StreamStart", states |-> <<>>, token |-> NoTok,
     current |-> NoCur,
     anchors |-> [n \in Names |-> 0], next_anchor_id |-> 1,
     scanner |-> scanner_new]

\* Parser::scan_next_token: the pulled token, or the latched error, or
\* "unexpected eof" when the scanner has nothing more.
scan_next_token(p) ==
    { IF r.tok = NoTok
      THEN [kind |-> "err", p |-> [p EXCEPT !.scanner = r.sc], tok |-> NoTok,
            mark |-> scanner_mark(r.sc),
            msg |-> IF r.sc.err THEN "scan error" ELSE "unexpected eof"]
      ELSE [kind |-> "ok", p |-> [p EXCEPT !.scanner = r.sc], tok |-> r.tok,
            mark |-> r.tok.mark, msg |-> ""]
      : r \in scanner_next(p.scanner) }

\* Parser::peek_token
peek_token(p) ==
    IF p.token = NoTok
    THEN { IF r.kind = "ok" THEN [r EXCEPT !.p.token = r.tok] ELSE r
           : r \in scan_next_token(p) }
    ELSE { [kind |-> "ok", p |-> p, tok |-> p.token, mark |-> p.token.mark,
            msg |-> ""] }

\* self.peek_token()? followed by the code F that uses the token.
WithTok(p, F(_, _)) ==
    UNION { IF r.kind = "ok" THEN F(r.p, r.tok) ELSE { ErrOut(r.p, r.mark, r.msg) }
            : r \in peek_token(p) }

\* Parser::skip (and fetch_token, whose result the caller already holds).
skip(p) == [p EXCEPT !.token = NoTok]

\* push_state that pushes nothing.
push_state_lost(p, s) == p

\* Parser::push_state
push_state(p, s) == [p EXCEPT !.states = Append(@, s)]

\* Parser::pop_state, followed by the code F; unwrap panics on an empty stack.
WithPop(p, F(_)) ==
    IF p.states = <<>>
    THEN { PanicOut(p) }
    ELSE F([p EXCEPT !.state = p.states[Len(p.states)],
                     !.states = SubSeq(p.states, 1, Len(p.states) - 1)])

SetState(p, s) == [p EXCEPT !.state = s]

\* Parser::stream_start
stream_start(p) ==
    WithTok(p, LAMBDA q, t :
        IF t.tt = "StreamStart"
        THEN { OkOut(skip(SetState(q, "ImplicitDocumentStart")),
                     Bare("StreamStart"), t.mark) }
        ELSE { ErrOut(q, t.mark, "did not find expected <stream-start>") })

\* Parser::parser_process_directives: skips directive tokens.
RECURSIVE parser_process_directives(_)
parser_process_directives(p) ==
    UNION { IF r.kind # "ok" THEN { ErrOut(r.p, r.mark, r.msg) }
            ELSE IF r.tok.tt \in { "VersionDirective", "TagDirective" }
            THEN parser_process_directives(skip(r.p))
            ELSE { OkOut(r.p, NoEv, 0) }
            : r \in peek_token(p) }

\* _explict_document_start that begins an implicit document at a token that
\* is no DocumentStart.
explict_document_start_lenient(p) ==
    UNION { IF d.kind # "ok" THEN { d }
            ELSE WithTok(d.p, LAMBDA q, t :
                IF t.tt = "DocumentStart"
                THEN { OkOut(skip(SetState(push_state(q, "DocumentEnd"),
                                           "DocumentContent")),
                             Bare("DocumentStart"), t.mark) }
                ELSE { OkOut(SetState(push_state(q, "DocumentEnd"), "BlockNode"),
                             Bare("DocumentStart"), t.mark) })
            : d \in parser_process_directives(p) }

\* Parser::_explict_document_start
explict_document_start(p) ==
    UNION { IF d.kind # "ok" THEN { d }
            ELSE WithTok(d.p, LAMBDA q, t :
                IF t.tt = "DocumentStart"
                THEN { OkOut(skip(SetState(push_state(q, "DocumentEnd"),
                                           "DocumentContent")),
                             Bare("DocumentStart"), t.mark) }
                ELSE { ErrOut(q, t.mark, "did not find expected <document start>") })
            : d \in parser_process_directives(p) }

\* document_start(false) without the loop that skips DocumentEnd tokens.
skip_document_ends_none(p) == { OkOut(p, NoEv, 0) }

\* The loop of document_start(false) that skips DocumentEnd tokens.
RECURSIVE skip_document_ends(_)
skip_document_ends(p) ==
    UNION { IF r.kind # "ok" THEN { ErrOut(r.p, r.mark, r.msg) }
            ELSE IF r.tok.tt = "DocumentEnd"
            THEN skip_document_ends(skip(r.p))
            ELSE { OkOut(r.p, NoEv, 0) }
            : r \in peek_token(p) }

\* Parser::document_start
document_start(p, implicit) ==
    UNION { IF s.kind # "ok" THEN { s }
            ELSE WithTok(s.p, LAMBDA q, t :
                CASE t.tt = "StreamEnd" ->
                       { OkOut(skip(SetState(q, "End")),
                               Bare("StreamEnd"), t.mark) }
                  [] t.tt \in { "VersionDirective", "TagDirective", "DocumentStart" } ->
                       explict_document_start(q)
                  [] OTHER ->
                       IF implicit
                       THEN UNION { IF d.kind # "ok" THEN { d }
                                    ELSE { OkOut(SetState(push_state(d.p, "DocumentEnd"),
                                                          "BlockNode"),
                                                 Bare("DocumentStart"), t.mark) }
                                    : d \in parser_process_directives(q) }
                       ELSE explict_document_start(q))
            : s \in (IF implicit THEN { OkOut(p, NoEv, 0) } ELSE skip_document_ends(p)) }

\* document_end that leaves the state as it is.
document_end_stay(p) ==
    WithTok(p, LAMBDA q, t : { OkOut(q, Bare("DocumentEnd"), t.mark) })

\* Parser::document_end
document_end(p) ==
    WithTok(p, LAMBDA q, t :
        IF t.tt = "DocumentEnd"
        THEN { OkOut(SetState(skip(q), "DocumentStart"),
                     Bare("DocumentEnd"), t.mark) }
        ELSE { OkOut(SetState(q, "DocumentStart"),
                     Bare("DocumentEnd"), t.mark) })

\* register_anchor with the commented-out duplicate check turned into "keep
\* the first binding": the new id is handed out but the name stays bound to
\* the old one.
register_anchor_keep(p, name) ==
    [p |-> [p EXCEPT !.next_anchor_id = @ + 1,
                     !.anchors[name] = IF @ = 0 THEN p.next_anchor_id ELSE @],
     id |-> p.next_anchor_id]

\* Parser::register_anchor: [p, id], the next id bound to the name.
register_anchor(p, name) ==
    [p |-> [p EXCEPT !.next_anchor_id = @ + 1,
                     !.anchors[name] = p.next_anchor_id],
     id |-> p.next_anchor_id]

\* The second match of parse_node: the node content after the properties.
node_content(p, block, indentless_sequence, anchor, tag) ==
    WithTok(p, LAMBDA q, t :
        CASE t.tt = "BlockEntry" /\ indentless_sequence ->
               { OkOut(SetState(q, "IndentlessSequenceEntry"),
                       Start("SequenceStart", anchor), t.mark) }
          [] t.tt = "Scalar" ->
               WithPop(q, LAMBDA q1 :
                   { OkOut(skip(q1), Ev("Scalar", anchor, t.nm, t.st, tag), t.mark) })
          [] t.tt = "FlowSequenceStart" ->
               { OkOut(SetState(q, "FlowSequenceFirstEntry"),
                       Start("SequenceStart", anchor), t.mark) }
          [] t.tt = "FlowMappingStart" ->
               { OkOut(SetState(q, "FlowMappingFirstKey"),
                       Start("MappingStart", anchor), t.mark) }
          [] t.tt = "BlockSequenceStart" /\ block ->
               { OkOut(SetState(q, "BlockSequenceFirstEntry"),
                       Start("SequenceStart", anchor), t.mark) }
          [] t.tt = "BlockMappingStart" /\ block ->
               { OkOut(SetState(q, "BlockMappingFirstKey"),
                       Start("MappingStart", anchor), t.mark) }
          [] OTHER ->
               IF tag # "" \/ anchor # 0
               THEN WithPop(q, LAMBDA q1 :
                        { OkOut(q1, empty_scalar_with_anchor(anchor, tag), t.mark) })
               ELSE { ErrOut(q, t.mark,
                        "while parsing a node, did not find expected node content") })

\* The alias arm of parse_node without the None arm of the lookup: whatever
\* the registry holds for the name is emitted.
alias_lookup_unchecked(p, t) ==
    { [OkOut(p, Start("Alias", p.anchors[t.nm]), t.mark) EXCEPT !.met = t.nm] }

\* The alias arm of parse_node: look the name up in the anchor registry.
alias_lookup(p, t) ==
    IF p.anchors[t.nm] = 0
    THEN { [ErrOut(p, t.mark, "while parsing node, found unknown anchor")
              EXCEPT !.met = t.nm] }
    ELSE { [OkOut(p, Start("Alias", p.anchors[t.nm]), t.mark)
              EXCEPT !.met = t.nm] }

\* Parser::parse_node
parse_node(p, block, indentless_sequence) ==
    WithTok(p, LAMBDA q, t :
        CASE t.tt = "Alias" ->
               WithPop(q, LAMBDA q1 : alias_lookup(skip(q1), t))
          [] t.tt = "Anchor" ->
               LET r == register_anchor(skip(q), t.nm) IN
               { [o EXCEPT !.reg = t.nm] : o \in
                   WithTok(r.p, LAMBDA q2, t2 :
                       IF t2.tt = "Tag"
                       THEN node_content(skip(q2), block, indentless_sequence, r.id, t2.nm)
                       ELSE node_content(q2, block, indentless_sequence, r.id, "")) }
          [] t.tt = "Tag" ->
               WithTok(skip(q), LAMBDA q2, t2 :
                   IF t2.tt = "Anchor"
                   THEN LET r == register_anchor(skip(q2), t2.nm) IN
                        { [o EXCEPT !.reg = t2.nm] : o \in
                            node_content(r.p, block, indentless_sequence, r.id, t.nm) }
                   ELSE node_content(q2, block, indentless_sequence, 0, t.nm))
          [] OTHER ->
               node_content(q, block, indentless_sequence, 0, ""))

\* "if first { peek_token()?; skip() }" followed by the code F.
SkipFirst(p, first, F(_)) ==
    IF first THEN WithTok(p, LAMBDA q, t : F(skip(q))) ELSE F(p)

\* document_content that gives a document without content no node: it goes
\* on to document_end.
document_content_none(p) ==
    WithTok(p, LAMBDA q, t :
        IF t.tt \in { "VersionDirective", "TagDirective", "DocumentStart",
                      "DocumentEnd", "StreamEnd" }
        THEN WithPop(q, LAMBDA q1 : document_end(q1))
        ELSE parse_node(q, TRUE, FALSE))

\* Parser::document_content
document_content(p) ==
    WithTok(p, LAMBDA q, t :
        IF t.tt \in { "VersionDirective", "TagDirective", "DocumentStart",
                      "DocumentEnd", "StreamEnd" }
        THEN WithPop(q, LAMBDA q1 : { OkOut(q1, empty_scalar, t.mark) })
        ELSE parse_node(q, TRUE, FALSE))

\* Parser::block_mapping_key
block_mapping_key(p, first) ==
    SkipFirst(p, first, LAMBDA p1 :
        WithTok(p1, LAMBDA q, t :
            CASE t.tt = "Key" ->
                   WithTok(skip(q), LAMBDA q2, t2 :
                       IF t2.tt \in { "Key", "Value", "BlockEnd" }
                       THEN { OkOut(SetState(q2, "BlockMappingValue"),
                                    empty_scalar, t2.mark) }
                       ELSE parse_node(push_state(q2, "BlockMappingValue"), TRUE, TRUE))
              [] t.tt = "Value" ->
                   { OkOut(SetState(q, "BlockMappingValue"), empty_scalar, t.mark) }
              [] t.tt = "BlockEnd" ->
                   WithPop(q, LAMBDA q1 : { OkOut(skip(q1), Bare("MappingEnd"), t.mark) })
              [] OTHER ->
                   { ErrOut(q, t.mark,
                       "while parsing a block mapping, did not find expected key") }))

\* block_mapping_value with Event::empty_scalar_with_anchor(None, None) for
\* the value missing after ':'.
block_mapping_value_blank(p) ==
    WithTok(p, LAMBDA q, t :
        IF t.tt = "Value"
        THEN WithTok(skip(q), LAMBDA q2, t2 :
                 IF t2.tt \in { "Key", "Value", "BlockEnd" }
                 THEN { OkOut(SetState(q2, "BlockMappingKey"),
                              empty_scalar_with_anchor(0, ""), t2.mark) }
                 ELSE parse_node(push_state(q2, "BlockMappingKey"), TRUE, TRUE))
        ELSE { OkOut(SetState(q, "BlockMappingKey"), empty_scalar, t.mark) })

\* Parser::block_mapping_value
block_mapping_value(p) ==
    WithTok(p, LAMBDA q, t :
        IF t.tt = "Value"
        THEN WithTok(skip(q), LAMBDA q2, t2 :
                 IF t2.tt \in { "Key", "Value", "BlockEnd" }
                 THEN { OkOut(SetState(q2, "BlockMappingKey"), empty_scalar, t2.mark) }
                 ELSE parse_node(push_state(q2, "BlockMappingKey"), TRUE, TRUE))
        ELSE { OkOut(SetState(q, "BlockMappingKey"), empty_scalar, t.mark) })

\* The tail of flow_mapping_key: pop_state, skip, MappingEnd(marker).
flow_mapping_end(p, marker) ==
    WithPop(p, LAMBDA q1 : { OkOut(skip(q1), Bare("MappingEnd"), marker) })

\* The key part of flow_mapping_key, after the optional FlowEntry; mark is
\* the marker of the token the function saw first.
flow_mapping_key_node(p, mark) ==
    WithTok(p, LAMBDA q2, t2 :
        CASE t2.tt = "Key" ->
               WithTok(skip(q2), LAMBDA q3, t3 :
                   IF t3.tt \in { "Value", "FlowEntry", "FlowMappingEnd" }
                   THEN { OkOut(SetState(q3, "FlowMappingValue"),
                                empty_scalar, t3.mark) }
                   ELSE parse_node(push_state(q3, "FlowMappingValue"), FALSE, FALSE))
          [] t2.tt = "Value" ->
               { OkOut(SetState(q2, "FlowMappingValue"), empty_scalar, t2.mark) }
          [] t2.tt = "FlowMappingEnd" ->
               flow_mapping_end(q2, mark)
          [] OTHER ->
               parse_node(push_state(q2, "FlowMappingEmptyValue"), FALSE, FALSE))

\* Parser::flow_mapping_key
flow_mapping_key(p, first) ==
    SkipFirst(p, first, LAMBDA p1 :
        WithTok(p1, LAMBDA q, t :
            IF t.tt = "FlowMappingEnd"
            THEN flow_mapping_end(q, t.mark)
            ELSE IF first
            THEN flow_mapping_key_node(q, t.mark)
            ELSE IF t.tt = "FlowEntry"
            THEN flow_mapping_key_node(skip(q), t.mark)
            ELSE { ErrOut(q, t.mark,
                     "while parsing a flow mapping, did not find expected ',' or '}'") }))

\* Parser::flow_mapping_value
flow_mapping_value(p, empty) ==
    WithTok(p, LAMBDA q, t :
        IF empty
        THEN { OkOut(SetState(q, "FlowMappingKey"), empty_scalar, t.mark) }
        ELSE IF t.tt = "Value"
        THEN WithTok(skip(q), LAMBDA q2, t2 :
                 IF t2.tt \in { "FlowEntry", "FlowMappingEnd" }
                 THEN { OkOut(SetState(q2, "FlowMappingKey"), empty_scalar, t.mark) }
                 ELSE parse_node(push_state(q2, "FlowMappingKey"), FALSE, FALSE))
        ELSE { OkOut(SetState(q, "FlowMappingKey"), empty_scalar, t.mark) })

\* The second match of flow_sequence_entry.
flow_sequence_entry_node(p) ==
    WithTok(p, LAMBDA q2, t2 :
        CASE t2.tt = "FlowSequenceEnd" ->
               WithPop(q2, LAMBDA q1 : { OkOut(skip(q1), Bare("SequenceEnd"), t2.mark) })
          [] t2.tt = "Key" ->
               { OkOut(skip(SetState(q2, "FlowSequenceEntryMappingKey")),
                       Start("MappingStart", 0), t2.mark) }
          [] OTHER ->
               parse_node(push_state(q2, "FlowSequenceEntry"), FALSE, FALSE))

\* Parser::flow_sequence_entry
flow_sequence_entry(p, first) ==
    SkipFirst(p, first, LAMBDA p1 :
        WithTok(p1, LAMBDA q, t :
            CASE t.tt = "FlowSequenceEnd" ->
                   WithPop(q, LAMBDA q1 : { OkOut(skip(q1), Bare("SequenceEnd"), t.mark) })
              [] t.tt = "FlowEntry" /\ ~first ->
                   flow_sequence_entry_node(skip(q))
              [] t.tt # "FlowSequenceEnd" /\ t.tt # "FlowEntry" /\ ~first ->
                   { ErrOut(q, t.mark,
                       "while parsing a flow sequence, expectd ',' or ']'") }
              [] OTHER ->
                   flow_sequence_entry_node(q)))

\* indentless_sequence_entry that consumes the token that ends the sequence,
\* as block_sequence_entry does with BlockEnd.
indentless_sequence_entry_skip(p) ==
    WithTok(p, LAMBDA q, t :
        IF t.tt # "BlockEntry"
        THEN WithPop(q, LAMBDA q1 : { OkOut(skip(q1), Bare("SequenceEnd"), t.mark) })
        ELSE WithTok(skip(q), LAMBDA q2, t2 :
                 IF t2.tt \in { "BlockEntry", "Key", "Value", "BlockEnd" }
                 THEN { OkOut(SetState(q2, "IndentlessSequenceEntry"),
                              empty_scalar, t2.mark) }
                 ELSE parse_node(push_state(q2, "IndentlessSequenceEntry"), TRUE, FALSE)))

\* Parser::indentless_sequence_entry
indentless_sequence_entry(p) ==
    WithTok(p, LAMBDA q, t :
        IF t.tt # "BlockEntry"
        THEN WithPop(q, LAMBDA q1 : { OkOut(q1, Bare("SequenceEnd"), t.mark) })
        ELSE WithTok(skip(q), LAMBDA q2, t2 :
                 IF t2.tt \in { "BlockEntry", "Key", "Value", "BlockEnd" }
                 THEN { OkOut(SetState(q2, "IndentlessSequenceEntry"),
                              empty_scalar, t2.mark) }
                 ELSE parse_node(push_state(q2, "IndentlessSequenceEntry"), TRUE, FALSE)))

\* Parser::block_sequence_entry
block_sequence_entry(p, first) ==
    SkipFirst(p, first, LAMBDA p1 :
        WithTok(p1, LAMBDA q, t :
            CASE t.tt = "BlockEnd" ->
                   WithPop(q, LAMBDA q1 : { OkOut(skip(q1), Bare("SequenceEnd"), t.mark) })
              [] t.tt = "BlockEntry" ->
                   WithTok(skip(q), LAMBDA q2, t2 :
                       IF t2.tt \in { "BlockEntry", "BlockEnd" }
                       THEN { OkOut(SetState(q2, "BlockSequenceEntry"),
                                    empty_scalar, t2.mark) }
                       ELSE parse_node(push_state(q2, "BlockSequenceEntry"), TRUE, FALSE))
              [] OTHER ->
                   { ErrOut(q, t.mark,
                       "while parsing a block collection, did not find expected '-' indicator") }))

\* Parser::flow_sequence_entry_mapping_key
flow_sequence_entry_mapping_key(p) ==
    WithTok(p, LAMBDA q, t :
        IF t.tt \in { "Value", "FlowEntry", "FlowSequenceEnd" }
        THEN { OkOut(SetState(skip(q), "FlowSequenceEntryMappingValue"),
                     empty_scalar, t.mark) }
        ELSE parse_node(push_state(q, "FlowSequenceEntryMappingValue"), FALSE, FALSE))

\* flow_sequence_entry_mapping_value without the empty scalar for a pair that
\* has no Value token.
flow_sequence_entry_mapping_value_novalue(p) ==
    WithTok(p, LAMBDA q, t :
        IF t.tt = "Value"
        THEN WithTok(SetState(skip(q), "FlowSequenceEntryMappingValue"), LAMBDA q2, t2 :
                 IF t2.tt \in { "FlowEntry", "FlowSequenceEnd" }
                 THEN { OkOut(SetState(q2, "FlowSequenceEntryMappingEnd"),
                              empty_scalar, t2.mark) }
                 ELSE parse_node(push_state(q2, "FlowSequenceEntryMappingEnd"),
                                 FALSE, FALSE))
        ELSE { OkOut(SetState(q, "FlowSequenceEntry"), Bare("MappingEnd"), t.mark) })

\* Parser::flow_sequence_entry_mapping_value
flow_sequence_entry_mapping_value(p) ==
    WithTok(p, LAMBDA q, t :
        IF t.tt = "Value"
        THEN WithTok(SetState(skip(q), "FlowSequenceEntryMappingValue"), LAMBDA q2, t2 :
                 IF t2.tt \in { "FlowEntry", "FlowSequenceEnd" }
                 THEN { OkOut(SetState(q2, "FlowSequenceEntryMappingEnd"),
                              empty_scalar, t2.mark) }
                 ELSE parse_node(push_state(q2, "FlowSequenceEntryMappingEnd"),
                                 FALSE, FALSE))
        ELSE { OkOut(SetState(q, "FlowSequenceEntryMappingEnd"), empty_scalar, t.mark) })

\* flow_sequence_entry_mapping_end without the assignment that sets the state
\* back to FlowSequenceEntry.
flow_sequence_entry_mapping_end_stuck(p) ==
    { OkOut(p, Bare("MappingEnd"), scanner_mark(p.scanner)) }

\* Parser::flow_sequence_entry_mapping_end: the marker is the scanner's
\* current position, not a token's.
flow_sequence_entry_mapping_end(p) ==
    { OkOut(SetState(p, "FlowSequenceEntry"), Bare("MappingEnd"),
            scanner_mark(p.scanner)) }

\* Parser::state_machine
state_machine(p) ==
    CASE p.state = "StreamStart" -> stream_start(p)
      [] p.state = "ImplicitDocumentStart" -> document_start(p, TRUE)
      [] p.state = "DocumentStart" -> document_start(p, FALSE)
      [] p.state = "DocumentContent" -> document_content(p)
      [] p.state = "DocumentEnd" -> document_end(p)
      [] p.state = "BlockNode" -> parse_node(p, TRUE, FALSE)
      [] p.state = "BlockMappingFirstKey" -> block_mapping_key(p, TRUE)
      [] p.state = "BlockMappingKey" -> block_mapping_key(p, FALSE)
      [] p.state = "BlockMappingValue" -> block_mapping_value(p)
      [] p.state = "BlockSequenceFirstEntry" -> block_sequence_entry(p, TRUE)
      [] p.state = "BlockSequenceEntry" -> block_sequence_entry(p, FALSE)
      [] p.state = "FlowSequenceFirstEntry" -> flow_sequence_entry(p, TRUE)
      [] p.state = "FlowSequenceEntry" -> flow_sequence_entry(p, FALSE)
      [] p.state = "FlowMappingFirstKey" -> flow_mapping_key(p, TRUE)
      [] p.state = "FlowMappingKey" -> flow_mapping_key(p, FALSE)
      [] p.state = "FlowMappingValue" -> flow_mapping_value(p, FALSE)
      [] p.state = "IndentlessSequenceEntry" -> indentless_sequence_entry(p)
      [] p.state = "FlowSequenceEntryMappingKey" -> flow_sequence_entry_mapping_key(p)
      [] p.state = "FlowSequenceEntryMappingValue" -> flow_sequence_entry_mapping_value(p)
      [] p.state = "FlowSequenceEntryMappingEnd" -> flow_sequence_entry_mapping_end(p)
      [] p.state = "FlowMappingEmptyValue" -> flow_mapping_value(p, TRUE)
      [] OTHER -> { PanicOut(p) }

\* Parser::parse without the early return for State::End.
parse_unguarded(p) == state_machine(p)

\* Parser::parse
parse(p) ==
    IF p.state = "End"
    THEN { OkOut(p, Bare("StreamEnd"), scanner_mark(p.scanner)) }
    ELSE state_machine(p)

\* Parser::next
next(p) ==
    IF p.current = NoCur
    THEN parse(p)
    ELSE { OkOut([p EXCEPT !.current = NoCur], p.current.ev, p.current.mark) }

\* Parser::peek
peek(p) ==
    IF p.current # NoCur
    THEN { OkOut(p, p.current.ev, p.current.mark) }
    ELSE { IF o.kind = "ok"
           THEN [o EXCEPT !.p.current = ParsedEventMarker(o.ev, o.mark)]
           ELSE o
           : o \in next(p) }

\* HashMap::clear on the anchor registry (load, "clear anchors before a new
\* document").
anchors_clear(p) == [p EXCEPT !.anchors = [n \in Names |-> 0]]

\* The last element of a stack, and the stack without it.
Top(nest) == nest[Len(nest)]

Pop(nest) == SubSeq(nest, 1, Len(nest) - 1)

\* ------------------------------------------------------------------------
\* Scalar texts (loader.rs).  A text is handled as the sequence of its
\* characters; Chars gives the characters of the texts the model uses.
\* ------------------------------------------------------------------------

\* The scalar texts of the model.
Texts ==
    { "v", "~", "null", "true", "false", "True", "42", "-7", "+12", "0x2A",
      "0x", "0o17", ".inf", "+.inf", "-.inf", ".nan", "1.5", "+1.5", "1e3",
      "1.0", "0.25" }

\* &str as its characters.
Chars(text) ==
    CASE text = "v" -> << "v" >>
      [] text = "~" -> << "~" >>
      [] text = "null" -> << "n", "u", "l", "l" >>
      [] text = "true" -> << "t", "r", "u", "e" >>
      [] text = "false" -> << "f", "a", "l", "s", "e" >>
      [] text = "True" -> << "T", "r", "u", "e" >>
      [] text = "42" -> << "4", "2" >>
      [] text = "-7" -> << "-", "7" >>
      [] text = "+12" -> << "+", "1", "2" >>
      [] text = "0x2A" -> << "0", "x", "2", "A" >>
      [] text = "0x" -> << "0", "x" >>
      [] text = "0o17" -> << "0", "o", "1", "7" >>
      [] text = ".inf" -> << ".", "i", "n", "f" >>
      [] text = "+.inf" -> << "+", ".", "i", "n", "f" >>
      [] text = "-.inf" -> << "-", ".", "i", "n", "f" >>
      [] text = ".nan" -> << ".", "n", "a", "n" >>
      [] text = "1.5" -> << "1", ".", "5" >>
      [] text = "+1.5" -> << "+", "1", ".", "5" >>
      [] text = "1e3" -> << "1", "e", "3" >>
      [] text = "1.0" -> << "1", ".", "0" >>
      [] text = "0.25" -> << "0", ".", "2", "5" >>
      [] OTHER -> << >>

\* char::to_digit(16): the value of a digit character, 99 for any other.
to_digit(c) ==
    CASE c = "0" -> 0 [] c = "1" -> 1 [] c = "2" -> 2 [] c = "3" -> 3
      [] c = "4" -> 4 [] c = "5" -> 5 [] c = "6" -> 6 [] c = "7" -> 7
      [] c = "8" -> 8 [] c = "9" -> 9
      [] c \in { "a", "A" } -> 10 [] c \in { "b", "B" } -> 11
      [] c \in { "c", "C" } -> 12 [] c \in { "d", "D" } -> 13
      [] c \in { "e", "E" } -> 14 [] c \in { "f", "F" } -> 15
      [] OTHER -> 99

\* The characters of a text from the i-th on (&v[i-1..]).
From(cs, i) == SubSeq(cs, i, Len(cs))

\* str::starts_with
starts_with(cs, pre) ==
    Len(cs) >= Len(pre) /\ SubSeq(cs, 1, Len(pre)) = pre

\* The digits of an unsigned number in the radix: [ok, v].  No digit at all
\* is an error, as is a character that is no digit of the radix.  (The texts
\* of the model are too short to overflow an i64.)
RECURSIVE digits_value(_, _, _)
digits_value(cs, radix, acc) ==
    IF cs = << >> THEN [ok |-> TRUE, v |-> acc]
    ELSE IF to_digit(Head(cs)) >= radix THEN [ok |-> FALSE, v |-> 0]
    ELSE digits_value(From(cs, 2), radix, acc * radix + to_digit(Head(cs)))

\* i64::from_str_radix: an optional sign and at least one digit.
from_str_radix(cs, radix) ==
    LET signed == cs # << >> /\ Head(cs) \in { "+", "-" }
        body == IF signed THEN From(cs, 2) ELSE cs
        r == digits_value(body, radix, 0)
    IN IF body = << >> \/ ~r.ok THEN [ok |-> FALSE, v |-> 0]
       ELSE [ok |-> TRUE, v |-> IF signed /\ Head(cs) = "-" THEN 0 - r.v ELSE r.v]

\* str::parse::<i64>
parse_i64(cs) == from_str_radix(cs, 10)

\* str::parse::<bool>: "true" or "false" and nothing else.
parse_bool(cs) ==
    IF cs = Chars("true") THEN [ok |-> TRUE, v |-> TRUE]
    ELSE IF cs = Chars("false") THEN [ok |-> TRUE, v |-> FALSE]
    ELSE [ok |-> FALSE, v |-> FALSE]

\* f64 values: cls is "fin", "inf" or "nan", neg the sign, and a finite value
\* is m * 10^e with m not a multiple of 10 (m = 0 has e = 0).  The texts of
\* the model have few digits, so that every finite value is the f64 whose
\* shortest decimal form is m * 10^e.
F64(cls, neg, m, e) == [cls |-> cls, neg |-> neg, m |-> m, e |-> e]

INFINITY == F64("inf", FALSE, 0, 0)

NEG_INFINITY == F64("inf", TRUE, 0, 0)

NAN == F64("nan", FALSE, 0, 0)

\* m * 10^e without the trailing zeros of m.
RECURSIVE normal(_, _, _)
normal(neg, m, e) ==
    IF m = 0 THEN F64("fin", neg, 0, 0)
    ELSE IF m % 10 = 0 THEN normal(neg, m \div 10, e + 1)
    ELSE F64("fin", neg, m, e)

\* The number of leading decimal digits of a text.
RECURSIVE span_digits(_)
span_digits(cs) ==
    IF cs = << >> \/ to_digit(Head(cs)) >= 10 THEN 0
    ELSE 1 + span_digits(From(cs, 2))

\* str::parse::<f64> on decimal and scientific texts: [sign] digits [. digits]
\* [e [sign] digits], with a digit before or after the point.  [ok, v].
\* The exponent part r4 of the text: nothing, or e / E and an integer.
float_exponent(r4) ==
    IF r4 # << >> /\ Head(r4) \in { "e", "E" }
    THEN parse_i64(From(r4, 2))
    ELSE [ok |-> r4 = << >>, v |-> 0]

\* The value of sign neg, ni integer digits at the head of r1 and nf
\* fraction digits at the head of r3, with the exponent ex.
float_value(neg, r1, ni, r3, nf, ex) ==
    IF ni + nf = 0 \/ ~ex.ok
    THEN [ok |-> FALSE, v |-> NAN]
    ELSE [ok |-> TRUE,
          v |-> normal(neg, digits_value(SubSeq(r1, 1, ni) \o SubSeq(r3, 1, nf),
                                         10, 0).v,
                       ex.v - nf)]

\* The text r3 after the point: its leading digits are the fraction.
float_fraction(neg, r1, ni, r3, nf) ==
    float_value(neg, r1, ni, r3, nf, float_exponent(From(r3, nf + 1)))

\* The text r1 after the sign has ni leading digits; a point may follow.
float_digits(neg, r1, ni) ==
    IF Len(r1) > ni /\ r1[ni + 1] = "."
    THEN float_fraction(neg, r1, ni, From(r1, ni + 2), span_digits(From(r1, ni + 2)))
    ELSE float_fraction(neg, r1, ni, From(r1, ni + 1), 0)

parse_float(cs) ==
    IF cs # << >> /\ Head(cs) \in { "+", "-" }
    THEN float_digits(Head(cs) = "-", From(cs, 2), span_digits(From(cs, 2)))
    ELSE float_digits(FALSE, cs, span_digits(cs))

\* loader::parse_f64: the Core schema spellings of the infinities and NaN,
\* and whatever str::parse::<f64> accepts.
parse_f64(cs) ==
    CASE cs \in { Chars(".inf"), << ".", "I", "n", "f" >>, << ".", "I", "N", "F" >>,
                  Chars("+.inf"), << "+", ".", "I", "n", "f" >>,
                  << "+", ".", "I", "N", "F" >> } ->
           [ok |-> TRUE, v |-> INFINITY]
      [] cs \in { Chars("-.inf"), << "-", ".", "I", "n", "f" >>,
                  << "-", ".", "I", "N", "F" >> } ->
           [ok |-> TRUE, v |-> NEG_INFINITY]
      [] cs \in { Chars(".nan"), << "N", "a", "N" >>, << ".", "N", "A", "N" >> } ->
           [ok |-> TRUE, v |-> NAN]
      [] OTHER -> parse_float(cs)

\* The decimal digits of a natural number.
RECURSIVE digits_of(_)
digits_of(n) ==
    LET d == << "0", "1", "2", "3", "4", "5", "6", "7", "8", "9" >>[(n % 10) + 1]
    IN IF n < 10 THEN << d >> ELSE Append(digits_of(n \div 10), d)

\* k times the character "0".
zeros(k) == [i \in 1..k |-> "0"]

\* f64::to_string (Display): "inf", "-inf", "NaN", and for a finite value
\* its shortest decimal form, never with an exponent.
f64_to_string(f) ==
    LET ds == digits_of(f.m)
        sign == IF f.neg THEN << "-" >> ELSE << >>
    IN CASE f.cls = "nan" -> << "N", "a", "N" >>
         [] f.cls = "inf" -> sign \o << "i", "n", "f" >>
         [] f.cls = "fin" /\ f.e >= 0 -> sign \o ds \o zeros(f.e)
         [] f.cls = "fin" /\ f.e < 0 /\ Len(ds) > 0 - f.e ->
              sign \o SubSeq(ds, 1, Len(ds) + f.e) \o << "." >>
                   \o SubSeq(ds, Len(ds) + f.e + 1, Len(ds))
         [] OTHER -> sign \o << "0", "." >> \o zeros(0 - f.e - Len(ds)) \o ds

\* ------------------------------------------------------------------------
\* Document tree, settings and builder (settings.rs, builder.rs)
\* ------------------------------------------------------------------------

\* Yaml: k the variant, i the Integer (or 1 / 0 for Boolean true / false),
\* cs the characters of a Real or a String, items the nodes of an Array or
\* the key, value, key, value, ... of a Hash.
Yaml(k, i, cs, items) == [k |-> k, i |-> i, cs |-> cs, items |-> items]

BadValue == Yaml("BadValue", 0, << >>, << >>)

\* YamlStandardSettings::new / new_safe
Settings(allow) == [allow_aliases |-> allow, allow_multi_doc |-> allow]

settings_new == Settings(TRUE)

settings_new_safe == Settings(FALSE)

\* YamlStandardSettings::allow_aliases / allow_multi_doc: the setter writes
\* into the data behind the object and returns the object.
allow_aliases(st, value) == [st EXCEPT !.allow_aliases = value]

\* The setter of allow_multi_doc writing the other field.
allow_multi_doc_aliases(st, value) == [st EXCEPT !.allow_aliases = value]

allow_multi_doc(st, value) == [st EXCEPT !.allow_multi_doc = value]

is_aliases_allowed(st) == st.allow_aliases

is_multi_doc_allowed(st) == st.allow_multi_doc

\* A clone that copies the data into an Rc of its own.
settings_clone_copy(v) == IF v = "std" THEN "copy of std" ELSE "copy of safe"

\* #[derive(Clone)] on YamlStandardSettings: a settings value is the Rc v,
\* named here by the data it points at, and its clone is the same Rc.
settings_clone(v) == v

\* A function with one more (or one changed) entry.
Put(f, h, x) == [g \in DOMAIN f \cup { h } |-> IF g = h THEN x ELSE f[g]]

\* A function without an entry.
Drop(f, h) == [g \in DOMAIN f \ { h } |-> f[g]]

\* YamlStandardBuilderData::new; panic tells that an unwrap or unreachable!
\* of the builder has failed.
builder_new ==
    [counter |-> 1, nodes |-> << >>, docs |-> << >>, panic |-> FALSE]

builder_panic(b) == [b EXCEPT !.panic = TRUE]

\* get_next_handle: [b, h]
get_next_handle(b) ==
    [b |-> [b EXCEPT !.counter = @ + 1], h |-> b.counter + 1]

\* push_node: [b, h]
push_node(b, node) ==
    LET r == get_next_handle(b)
    IN [b |-> [r.b EXCEPT !.nodes = Put(@, r.h, node)], h |-> r.h]

\* get_node(h).is_some()
has_node(b, h) == h \in DOMAIN b.nodes

\* take_node
take_node(b, h) == [b EXCEPT !.nodes = Drop(@, h)]

new_badvalue(b) == push_node(b, BadValue)

new_null(b) == push_node(b, Yaml("Null", 0, << >>, << >>))

new_sequence(b) == push_node(b, Yaml("Array", 0, << >>, << >>))

new_mapping(b) == push_node(b, Yaml("Hash", 0, << >>, << >>))

\* new_float: the Real holds value.to_string().
new_float(b, value) == push_node(b, Yaml("Real", 0, f64_to_string(value), << >>))

new_int(b, value) == push_node(b, Yaml("Integer", value, << >>, << >>))

new_string(b, value) == push_node(b, Yaml("String", 0, value, << >>))

new_bool(b, value) ==
    push_node(b, Yaml("Boolean", IF value THEN 1 ELSE 0, << >>, << >>))

\* add_to_sequence
add_to_sequence(b, h_sequence, h_item) ==
    IF ~has_node(b, h_item) \/ ~has_node(b, h_sequence) \/ h_item = h_sequence
    THEN builder_panic(b)
    ELSE IF b.nodes[h_sequence].k # "Array" THEN builder_panic(take_node(b, h_item))
    ELSE [take_node(b, h_item) EXCEPT
            !.nodes[h_sequence].items = Append(@, b.nodes[h_item])]

\* The position of a key in the items of a Hash, 0 if it is not there.
RECURSIVE key_index(_, _, _)
key_index(items, key, j) ==
    IF j > Len(items) THEN 0
    ELSE IF items[j] = key THEN j
    ELSE key_index(items, key, j + 2)

\* Hash (LinkedHashMap) insert: a key that is already there gets the new
\* value and moves to the end.
hash_insert(items, key, item) ==
    LET j == key_index(items, key, 1)
    IN IF j = 0 THEN items \o << key, item >>
       ELSE SubSeq(items, 1, j - 1) \o SubSeq(items, j + 2, Len(items))
            \o << key, item >>

\* add_to_mapping
add_to_mapping(b, h_mapping, h_key, h_item) ==
    IF \/ ~has_node(b, h_key) \/ ~has_node(b, h_item) \/ ~has_node(b, h_mapping)
       \/ h_key = h_item \/ h_mapping \in { h_key, h_item }
    THEN builder_panic(b)
    ELSE IF b.nodes[h_mapping].k # "Hash"
    THEN builder_panic(take_node(take_node(b, h_key), h_item))
    ELSE [take_node(take_node(b, h_key), h_item) EXCEPT
            !.nodes[h_mapping].items =
                hash_insert(@, b.nodes[h_key], b.nodes[h_item])]

\* new_document: a handle without a node.
new_document(b) == get_next_handle(b)

\* close_document
close_document(b, h_document, h_content) ==
    IF ~has_node(b, h_content) THEN builder_panic(b)
    ELSE [take_node(b, h_content) EXCEPT !.docs = Append(@, b.nodes[h_content])]

\* get_node_kind
get_node_kind(b, h_node) ==
    CASE ~has_node(b, h_node) -> "panic"
      [] b.nodes[h_node].k = "Array" -> "Sequence"
      [] b.nodes[h_node].k = "Hash" -> "Mapping"
      [] OTHER -> "Scalar"

\* clone_node that hands out the handle it was given: no copy is pushed.
clone_node_shared(b, h_node) ==
    IF ~has_node(b, h_node) THEN [b |-> builder_panic(b), h |-> 0]
    ELSE [b |-> b, h |-> h_node]

\* clone_node: [b, h]
clone_node(b, h_node) ==
    IF ~has_node(b, h_node) THEN [b |-> builder_panic(b), h |-> 0]
    ELSE push_node(b, b.nodes[h_node])

\* is_badvalue (the caller has checked that the node is there)
is_badvalue(b, h_node) == has_node(b, h_node) /\ b.nodes[h_node] = BadValue

\* into_documents
into_documents(b) == b.docs

\* ------------------------------------------------------------------------
\* Loader (loader.rs)
\* ------------------------------------------------------------------------

\* The tags of the model: "" is no tag, the others are handle and suffix.
Tags == { "", "!!bool", "!!int", "!!float", "!!null", "!!str", "!t" }

\* The handle of TokenType::Tag(handle, suffix).
tag_handle(tg) == IF tg = "!t" THEN "!" ELSE "!!"

\* The suffix of TokenType::Tag(handle, suffix).
tag_suffix(tg) ==
    CASE tg = "!!bool" -> "bool" [] tg = "!!int" -> "int"
      [] tg = "!!float" -> "float" [] tg = "!!null" -> "null"
      [] tg = "!!str" -> "str" [] OTHER -> "t"

\* NodeWithAnchor
NodeWithAnchor(node, anchor) == [node |-> node, anchor |-> anchor]

\* The last insertion, for the reader of the loader: kind is "root", "item",
\* "key" or "pair", node the value of the node that was inserted and key the
\* value of the key it was paired with.
Op(kind, node, key) == [kind |-> kind, node |-> node, key |-> key]

\* YamlLoader::new.  Besides the fields of the struct (doc = 0 is None):
\*   panic  an unwrap or unreachable! has ended the program
\*   op     the last insertion
\*   kids   per frame of doc_stack, the parity of the number of children
\*          inserted so far and the handle of the last one
\*   shift  a child of a mapping was not given the role of its position
\*   seen   per anchor id, the value of the node inserted with that anchor
YamlLoader_new(settings) ==
    [settings |-> settings, builder |-> builder_new, doc_stack |-> << >>,
     key_stack |-> << >>, anchor_map |-> << >>, doc |-> 0, panic |-> FALSE,
     op |-> Op("none", BadValue, BadValue), kids |-> << >>, shift |-> FALSE,
     seen |-> << >>]

loader_panic(l) == [l EXCEPT !.panic = TRUE]

\* YamlLoader::from_str: [b, h], Core schema resolution of a plain text.
from_str(b, cs) ==
    LET hex == from_str_radix(From(cs, 3), 16)
        oct == from_str_radix(From(cs, 3), 8)
        plus == parse_i64(From(cs, 2))
        int == parse_i64(cs)
        float == parse_f64(cs)
        rest == CASE cs \in { Chars("~"), Chars("null") } -> new_null(b)
                  [] cs = Chars("true") -> new_bool(b, TRUE)
                  [] cs = Chars("false") -> new_bool(b, FALSE)
                  [] OTHER -> new_string(b, cs)
    IN CASE starts_with(cs, << "0", "x" >>) ->
              IF hex.ok THEN new_int(b, hex.v) ELSE rest
         [] ~starts_with(cs, << "0", "x" >>) /\ starts_with(cs, << "0", "o" >>) ->
              IF oct.ok THEN new_int(b, oct.v) ELSE rest
         [] /\ ~starts_with(cs, << "0", "x" >>) /\ ~starts_with(cs, << "0", "o" >>)
            /\ starts_with(cs, << "+" >>) ->
              IF plus.ok THEN new_int(b, plus.v) ELSE rest
         [] OTHER ->
              IF int.ok THEN new_int(b, int.v)
              ELSE IF float.ok THEN new_float(b, float.v)
              ELSE rest

\* The node of a Scalar event with the tag looked at before the style.
scalar_node_tag_first(b, ev) ==
    LET value == Chars(ev.v)
        bool == parse_bool(value)
        int == parse_i64(value)
        float == parse_f64(value)
    IN IF ev.tg # "" /\ tag_handle(ev.tg) = "!!"
       THEN CASE tag_suffix(ev.tg) = "bool" ->
                   IF bool.ok THEN new_bool(b, bool.v) ELSE new_badvalue(b)
              [] tag_suffix(ev.tg) = "int" ->
                   IF int.ok THEN new_int(b, int.v) ELSE new_badvalue(b)
              [] tag_suffix(ev.tg) = "float" ->
                   IF float.ok THEN new_float(b, float.v) ELSE new_badvalue(b)
              [] tag_suffix(ev.tg) = "null" ->
                   IF value \in { Chars("~"), Chars("null") }
                   THEN new_null(b) ELSE new_badvalue(b)
              [] OTHER -> new_string(b, value)
       ELSE IF ev.st # "Plain" \/ ev.tg # "" THEN new_string(b, value)
       ELSE from_str(b, value)

\* The node of a Scalar event (on_event, Event::Scalar): [b, h].
scalar_node(b, ev) ==
    LET value == Chars(ev.v)
        bool == parse_bool(value)
        int == parse_i64(value)
        float == parse_f64(value)
    IN IF ev.st # "Plain" THEN new_string(b, value)
       ELSE IF ev.tg # ""
       THEN IF tag_handle(ev.tg) = "!!"
            THEN CASE tag_suffix(ev.tg) = "bool" ->
                        IF bool.ok THEN new_bool(b, bool.v) ELSE new_badvalue(b)
                   [] tag_suffix(ev.tg) = "int" ->
                        IF int.ok THEN new_int(b, int.v) ELSE new_badvalue(b)
                   [] tag_suffix(ev.tg) = "float" ->
                        IF float.ok THEN new_float(b, float.v) ELSE new_badvalue(b)
                   [] tag_suffix(ev.tg) = "null" ->
                        IF value \in { Chars("~"), Chars("null") }
                        THEN new_null(b) ELSE new_badvalue(b)
                   [] OTHER -> new_string(b, value)
            ELSE new_string(b, value)
       ELSE from_str(b, value)

\* The first part of insert_new_node with the node itself, not a clone of
\* it, put into the anchor registry.
register_noclone(l, node) ==
    LET l1 == IF node.anchor # 0 /\ has_node(l.builder, node.node)
              THEN [l EXCEPT !.seen = Put(@, node.anchor, l.builder.nodes[node.node])]
              ELSE l
    IN IF is_aliases_allowed(l.settings) /\ node.anchor # 0
       THEN [l1 EXCEPT !.anchor_map = Put(@, node.anchor, node.node)]
       ELSE l1

\* The first part of insert_new_node: a node with an anchor is cloned into
\* the anchor registry when aliases are allowed.
register_clone(l, node) ==
    LET c == clone_node(l.builder, node.node)
        l1 == IF node.anchor # 0 /\ has_node(l.builder, node.node)
              THEN [l EXCEPT !.seen = Put(@, node.anchor, l.builder.nodes[node.node])]
              ELSE l
    IN IF is_aliases_allowed(l.settings) /\ node.anchor # 0
       THEN [l1 EXCEPT !.builder = c.b,
                       !.anchor_map = IF c.b.panic THEN @ ELSE Put(@, node.anchor, c.h)]
       ELSE l1

\* The role a new child of the innermost frame has by its position: in a
\* mapping the children are key, value, key, value, ...
expected_role(l) ==
    IF l.doc_stack = << >> THEN "root"
    ELSE IF get_node_kind(l.builder, Top(l.doc_stack).node) = "Mapping"
    THEN IF Top(l.kids).n = 0 THEN "key" ELSE "pair"
    ELSE "item"

\* The child is counted in the innermost frame.
count_kid(kids, h) ==
    IF kids = << >> THEN kids
    ELSE Append(Pop(kids), [n |-> 1 - Top(kids).n, last |-> h])

\* The second part of insert_new_node: the node becomes the document's
\* content, an item of the parent sequence, the pending key of the parent
\* mapping or the value of its pending key.
insert_into_parent(l, node) ==
    LET b == l.builder
        value == IF has_node(b, node.node) THEN b.nodes[node.node] ELSE BadValue
        parent == Top(l.doc_stack)
        cur_key == Top(l.key_stack)
        newkey == new_badvalue(b)
        role == expected_role(l)
    IN IF l.doc_stack = << >>
       THEN [l EXCEPT !.doc_stack = << node >>,
                      !.kids = << [n |-> 0, last |-> 0] >>,
                      !.op = Op("root", value, BadValue)]
       ELSE CASE get_node_kind(b, parent.node) = "Sequence" ->
                   [l EXCEPT !.builder = add_to_sequence(b, parent.node, node.node),
                             !.kids = count_kid(@, node.node),
                             !.op = Op("item", value, BadValue)]
              [] get_node_kind(b, parent.node) = "Mapping" ->
                   IF l.key_stack = << >> \/ ~has_node(b, cur_key)
                   THEN loader_panic(l)
                   ELSE IF is_badvalue(b, cur_key)
                   THEN [l EXCEPT !.key_stack = Append(Pop(@), node.node),
                                  !.kids = count_kid(@, node.node),
                                  !.shift = @ \/ role # "key",
                                  !.op = Op("key", value, BadValue)]
                   ELSE [l EXCEPT !.key_stack = Append(Pop(@), newkey.h),
                                  !.builder = add_to_mapping(newkey.b, parent.node,
                                                             cur_key, node.node),
                                  !.kids = count_kid(@, node.node),
                                  !.shift = @ \/ role # "pair"
                                              \/ Top(l.kids).last # cur_key,
                                  !.op = Op("pair", value, b.nodes[cur_key])]
              [] OTHER -> loader_panic(l)

\* YamlLoader::insert_new_node
insert_new_node(l, node) == insert_into_parent(register_clone(l, node), node)

\* The builder's panic is the loader's.
settle(l) == IF l.builder.panic THEN loader_panic(l) ELSE l

\* MarkedEventReceiver::on_event of YamlLoader
YamlLoader_on_event(l, ev) ==
    LET b == l.builder IN
    IF l.panic THEN l
    ELSE settle(
      CASE ev.t = "DocumentStart" ->
             LET d == new_document(b)
             IN [l EXCEPT !.builder = d.b, !.doc = d.h]
        [] ev.t = "DocumentEnd" ->
             LET bad == new_badvalue(b)
                 b1 == IF l.doc_stack = << >> THEN bad.b ELSE b
                 content == IF l.doc_stack = << >> THEN bad.h
                            ELSE Top(l.doc_stack).node
             IN IF Len(l.doc_stack) > 1 \/ l.doc = 0
                THEN loader_panic(l)
                ELSE [l EXCEPT !.builder = close_document(b1, l.doc, content),
                               !.doc_stack = << >>, !.kids = << >>, !.doc = 0]
        [] ev.t = "SequenceStart" ->
             LET n == new_sequence(b)
             IN [l EXCEPT !.builder = n.b,
                          !.doc_stack = Append(@, NodeWithAnchor(n.h, ev.a)),
                          !.kids = Append(@, [n |-> 0, last |-> 0])]
        [] ev.t = "SequenceEnd" ->
             IF l.doc_stack = << >> THEN loader_panic(l)
             ELSE insert_new_node([l EXCEPT !.doc_stack = Pop(@), !.kids = Pop(@)],
                                  Top(l.doc_stack))
        [] ev.t = "MappingStart" ->
             LET n == new_mapping(b)
                 k == new_badvalue(n.b)
             IN [l EXCEPT !.builder = k.b,
                          !.doc_stack = Append(@, NodeWithAnchor(n.h, ev.a)),
                          !.kids = Append(@, [n |-> 0, last |-> 0]),
                          !.key_stack = Append(@, k.h)]
        [] ev.t = "MappingEnd" ->
             IF l.key_stack = << >> \/ l.doc_stack = << >> THEN loader_panic(l)
             ELSE insert_new_node([l EXCEPT !.key_stack = Pop(@),
                                            !.doc_stack = Pop(@), !.kids = Pop(@)],
                                  Top(l.doc_stack))
        [] ev.t = "Scalar" ->
             LET n == scalar_node(b, ev)
             IN insert_new_node([l EXCEPT !.builder = n.b],
                                NodeWithAnchor(n.h, ev.a))
        [] ev.t = "Alias" ->
             LET found == ev.a \in DOMAIN l.anchor_map
                 n == IF is_aliases_allowed(l.settings)
                      THEN IF found THEN clone_node(b, l.anchor_map[ev.a])
                           ELSE new_badvalue(b)
                      ELSE new_badvalue(b)
             IN insert_new_node([l EXCEPT !.builder = n.b], NodeWithAnchor(n.h, 0))
        [] OTHER -> l)

\* ------------------------------------------------------------------------
\* Observer: what a caller can tell from the results it was handed.  It
\* reads the produced events in order and keeps the open brackets, the
\* previous marker and the anchors it has seen; it never reads the parser.
\* ------------------------------------------------------------------------

Frame(k, n) == [k |-> k, n |-> n]

obs_new ==
    [nest |-> <<>>,        \* open brackets, innermost last
     started |-> FALSE,    \* StreamStart seen
     done |-> FALSE,       \* StreamEnd seen
     bad |-> FALSE,        \* an event that does not fit the open brackets
     odd |-> FALSE,        \* a MappingEnd after an odd number of children
     closed |-> {},        \* the kinds of collection closed so far
     errs |-> 0,           \* errors next()/peek() has returned
     last |-> 0,           \* marker of the last event
     back |-> FALSE,       \* an event with a marker before its predecessor's
     nanch |-> 0,          \* node events that carried an anchor
     bind |-> [n \in Names |-> 0],  \* id of the last anchored node, per name
     docids |-> {},        \* anchor ids carried by nodes of this document
     docnames |-> {},      \* names anchored in this document
     orphan |-> FALSE]     \* an Alias(id) with no such node before it

\* A child subtree of the innermost open bracket is complete.  A mapping
\* counts 0 (empty), 1 (a key without its value), 2 (whole pairs); a document
\* counts its root nodes up to 2.
ChildDone(nest) ==
    IF nest = <<>> THEN nest
    ELSE LET f == Top(nest) IN
         Append(Pop(nest),
                CASE f.k = "map" -> Frame("map", IF f.n = 1 THEN 2 ELSE 1)
                  [] f.k = "doc" -> Frame("doc", IF f.n < 2 THEN f.n + 1 ELSE 2)
                  [] OTHER -> f)

IsNodeParent(nest) == nest # <<>> /\ Top(nest).k \in { "doc", "seq", "map" }

\* The event fits the open brackets.
Fits(ob, ev) ==
    CASE ev.t = "StreamStart" -> ob.nest = <<>> /\ ~ob.started
      [] ev.t = "StreamEnd" -> ob.nest # <<>> /\ Len(ob.nest) = 1 /\ Top(ob.nest).k = "stream"
      [] ev.t = "DocumentStart" -> ob.nest # <<>> /\ Top(ob.nest).k = "stream"
      [] ev.t = "DocumentEnd" -> ob.nest # <<>> /\ Top(ob.nest).k = "doc"
      [] ev.t = "SequenceEnd" -> ob.nest # <<>> /\ Top(ob.nest).k = "seq"
      [] ev.t = "MappingEnd" -> ob.nest # <<>> /\ Top(ob.nest).k = "map"
      [] OTHER -> IsNodeParent(ob.nest)

\* The open brackets after an event that fits.
Nest(nest, ev) ==
    CASE ev.t = "StreamStart" -> <<Frame("stream", 0)>>
      [] ev.t = "DocumentStart" -> Append(nest, Frame("doc", 0))
      [] ev.t = "SequenceStart" -> Append(nest, Frame("seq", 0))
      [] ev.t = "MappingStart" -> Append(nest, Frame("map", 0))
      [] ev.t \in { "StreamEnd", "DocumentEnd" } -> Pop(nest)
      [] ev.t \in { "SequenceEnd", "MappingEnd" } -> ChildDone(Pop(nest))
      [] OTHER -> ChildDone(nest)

IsAnchored(ev) ==
    ev.t \in { "Scalar", "SequenceStart", "MappingStart" } /\ ev.a > 0

\* The observer after an event produced by the state machine; reg is the
\* name of the Anchor token the call consumed ("" if none).
ObserveEvent(ob, ev, mark, reg) ==
    IF ob.done THEN ob
    ELSE LET fits == Fits(ob, ev) IN
         [ob EXCEPT
            !.nest = IF fits THEN Nest(ob.nest, ev) ELSE @,
            !.started = @ \/ ev.t = "StreamStart",
            !.done = ev.t = "StreamEnd",
            !.bad = @ \/ ~fits,
            !.odd = @ \/ (fits /\ ev.t = "MappingEnd" /\ Top(ob.nest).n = 1),
            !.closed = IF fits /\ ev.t = "SequenceEnd" THEN @ \cup { "seq" }
                       ELSE IF fits /\ ev.t = "MappingEnd" /\ Top(ob.nest).n = 2
                       THEN @ \cup { "pairs" }
                       ELSE @,
            !.last = mark,
            !.back = @ \/ mark < ob.last,
            !.nanch = IF IsAnchored(ev) THEN @ + 1 ELSE @,
            !.bind = IF IsAnchored(ev) /\ reg # ""
                     THEN [@ EXCEPT ![reg] = ev.a] ELSE @,
            !.docids = IF ev.t = "DocumentStart" THEN {}
                       ELSE IF IsAnchored(ev) THEN @ \cup { ev.a } ELSE @,
            !.docnames = IF ev.t = "DocumentStart" THEN {}
                         ELSE IF reg # "" THEN @ \cup { reg } ELSE @,
            !.orphan = @ \/ (ev.t = "Alias" /\ ev.a \notin ob.docids)]

\* The observer after a call of next() or peek() on parser p with outcome o:
\* an event handed out from the lookahead slot was seen when it was produced.
Observe(ob, p, o) ==
    IF o.kind = "ok"
    THEN IF p.current = NoCur THEN ObserveEvent(ob, o.ev, o.mark, o.reg) ELSE ob
    ELSE [ob EXCEPT !.errs = @ + 1]

\* The result of a call as the caller sees it.
Result(o) ==
    [kind |-> o.kind, ev |-> o.ev, mark |-> o.mark, msg |-> o.msg, met |-> o.met]

NoResult == Result([OkOut(parser_new, NoEv, 0) EXCEPT !.kind = "none"])

\* ------------------------------------------------------------------------
\* State and actions
\* ------------------------------------------------------------------------

VARIABLES
    parser,   \* the Parser value (its scanner included)
    ld,       \* the running load() call: its position and its frames
    sent,     \* what the running (or last) load() call gave its receiver
    res,      \* the result of the last call of next() or peek()
    obs,      \* the observer
    patience, \* the number of errors after which the caller drops the parser
    shared,   \* the data of the caller's settings objects and of their clones
    loader    \* the YamlLoader of load_from_iter, under both settings

vars == <<parser, ld, sent, res, obs, patience, shared, loader>>

\* The load() call: pc its position ("idle" when none is running), multi
\* its argument, frames its nested load_sequence ("seq") and load_mapping
\* ("key", "val") calls, ret how the last call returned; calls counts the
\* calls up to 2 and single tells that every call so far had multi = false.
ld_new ==
    [pc |-> "idle", multi |-> FALSE, frames |-> <<>>, ret |-> "none",
     calls |-> 0, single |-> TRUE]

\* load() returns.
ld_idle(l, ret) == [l EXCEPT !.pc = "idle", !.frames = <<>>, !.ret = ret]

\* load(recv, multi) is called.
ld_call(l, multi) ==
    [l EXCEPT !.pc = "doc", !.multi = multi, !.frames = <<>>, !.ret = "none",
              !.calls = IF @ < 2 THEN @ + 1 ELSE @,
              !.single = @ /\ ~multi]

\* The settings objects of the caller: std made by YamlStandardSettings::new(),
\* safe by new_safe().  data is the YamlStandardSettingsData behind each: the
\* object holds it in an Rc<RefCell<..>>, so the object and its clones (the
\* struct derives Clone) read and write the same data.  last tells, per
\* field, the value of the last setter call and the handle it was called
\* on ("new": the constructor's value, no setter called yet).
shared_new ==
    [data |-> [std |-> settings_new, safe |-> settings_new_safe],
     last |-> [k \in { "std", "safe" } |->
                 [f \in { "allow_aliases", "allow_multi_doc" } |->
                    [value |-> (k = "std"), by |-> "new"]]]]

\* Nothing dispatched yet: docs counts the DocumentStart events (up to 2),
\* first and last are the first and the last event dispatched, depth is the
\* number of open collections and roots the number of nodes dispatched
\* outside every collection (up to 2).
sent_new == [docs |-> 0, first |-> "", last |-> "", depth |-> 0, roots |-> 0]

InitParser ==
    /\ parser = parser_new
    /\ ld = ld_new
    /\ sent = sent_new
    /\ res = NoResult
    /\ obs = obs_new
    /\ shared = shared_new

\* yaml_load_from_str_with_settings up to YamlLoader::new, once with
\* YamlStandardSettings::new() (std) and once with new_safe() (safe): the two
\* loads read the same input.  live tells that the loader is the receiver of
\* load (load_from_iter); otherwise the caller drives the parser itself.
loader_new(live) ==
    [live |-> live, std |-> YamlLoader_new(settings_new),
     safe |-> YamlLoader_new(settings_new_safe)]

\* The caller drops the parser at the first error.
Init == InitParser /\ patience = 1 /\ loader = loader_new(FALSE)

\* The caller goes on calling after an error.
InitRetry == InitParser /\ patience = MaxErrors /\ loader = loader_new(FALSE)

\* load_from_iter: the parser is handed to load with the loader as receiver.
InitYaml == InitParser /\ patience = 1 /\ loader = loader_new(TRUE)

\* No panic has ended the program and the caller has not given up.
Alive == res.kind # "panic" /\ ld.ret # "panic" /\ obs.errs < patience

\* The caller is free to call: no load() is running.
Idle == Alive /\ ld.pc = "idle"

\* The caller calls next().
NextCall ==
    /\ Idle
    /\ \E o \in next(parser) :
         /\ parser' = o.p
         /\ res' = Result(o)
         /\ obs' = Observe(obs, parser, o)
    /\ UNCHANGED <<ld, sent, patience, shared, loader>>

\* The caller calls peek().
PeekCall ==
    /\ Idle
    /\ \E o \in peek(parser) :
         /\ parser' = o.p
         /\ res' = Result(o)
         /\ obs' = Observe(obs, parser, o)
    /\ UNCHANGED <<ld, sent, patience, shared, loader>>

\* recv.on_event(ev, mark), as far as the caller of load() can tell.
on_event(sn, ev) ==
    LET opens == ev.t \in { "SequenceStart", "MappingStart" }
        closes == ev.t \in { "SequenceEnd", "MappingEnd" }
        root == \/ sn.depth = 0 /\ ev.t \in { "Scalar", "Alias" }
                \/ sn.depth = 1 /\ closes
    IN [docs |-> IF ev.t = "DocumentStart" /\ sn.docs < 2 THEN sn.docs + 1 ELSE sn.docs,
        first |-> IF sn.first = "" THEN ev.t ELSE sn.first,
        last |-> ev.t,
        depth |-> IF opens THEN sn.depth + 1
                  ELSE IF closes /\ sn.depth > 0 THEN sn.depth - 1 ELSE sn.depth,
        roots |-> IF root /\ sn.roots < 2 THEN sn.roots + 1 ELSE sn.roots]

\* recv.on_event(ev, mark) for the receiver of load().
Deliver(sn, ev) ==
    /\ sent' = on_event(sn, ev)
    /\ loader' = IF loader.live
                 THEN [k \in { "live", "std", "safe" } |->
                          IF k = "live" THEN loader.live
                          ELSE YamlLoader_on_event(loader[k], ev)]
                 ELSE loader

\* Nothing is handed to the receiver.
Undelivered(sn) == sent' = sn /\ loader' = loader

\* A child node of the innermost frame of load() is complete: load_mapping
\* goes from the key to the value and back, load_document goes on to the
\* DocumentEnd it expects.
NodeDone(l) ==
    IF l.frames = <<>>
    THEN [l EXCEPT !.pc = "docend"]
    ELSE LET f == Top(l.frames) IN
         [l EXCEPT !.frames = Append(Pop(l.frames),
                                     CASE f = "key" -> "val"
                                       [] f = "val" -> "key"
                                       [] OTHER -> f)]

\* The end of the loop of load without "if !multi { break }".
after_document_loop(l) == [l EXCEPT !.pc = "doc"]

\* The end of the loop of load: "if !multi { break }" and the Ok(()) after it.
after_document(l) ==
    IF l.multi THEN [l EXCEPT !.pc = "doc"] ELSE ld_idle(l, "ok")

\* "self.next()?" inside load(): a step of the running call with the code
\* Ok(_, _, _) for an event; an error ends the call with Err, a panic ends
\* the program.
LoadNext(Ok(_, _, _)) ==
    \E o \in next(parser) :
        /\ res' = Result(o)
        /\ obs' = Observe(obs, parser, o)
        /\ IF o.kind = "ok"
           THEN Ok(o.p, o.ev, o.mark)
           ELSE /\ parser' = o.p
                /\ ld' = ld_idle(ld, o.kind)
                /\ Undelivered(sent)

\* assert_eq! / unreachable! failed inside load().
LoadPanic(p) ==
    /\ parser' = p
    /\ ld' = ld_idle(ld, "panic")
    /\ Undelivered(sent)

\* The head of Parser::load: the StreamStart of a stream not yet started,
\* and the StreamEnd of a stream whose scanner has ended.
LoadBegin ==
    /\ Idle
    \* load_from_iter calls load(self, true), once, on a new parser
    /\ \E multi \in { m \in BOOLEAN : loader.live => m /\ ld.calls = 0 } :
        LET Enter(p, sn) ==
              /\ parser' = p
              /\ IF stream_ended(p.scanner)
                 THEN /\ Deliver(sn, Bare("StreamEnd"))
                      /\ ld' = ld_idle(ld_call(ld, multi), "ok")
                 ELSE /\ Undelivered(sn)
                      /\ ld' = ld_call(ld, multi)
        IN IF ~stream_started(parser.scanner)
           THEN LoadNext(LAMBDA p, ev, mark :
                    IF ev.t = "StreamStart"
                    THEN Enter(p, on_event(sent_new, ev))
                    ELSE /\ parser' = p
                         /\ ld' = ld_idle(ld_call(ld, multi), "panic")
                         /\ Undelivered(sent_new))
           ELSE /\ Enter(parser, sent_new)
                /\ UNCHANGED <<res, obs>>
    /\ UNCHANGED <<patience, shared>>

\* The loop of Parser::load up to the DocumentStart that load_document
\* dispatches.
LoadDocument ==
    /\ Alive
    /\ ld.pc = "doc"
    /\ LoadNext(LAMBDA p, ev, mark :
           IF ev.t = "StreamEnd"
           THEN /\ parser' = p
                /\ Deliver(sent, ev)
                /\ ld' = ld_idle(ld, "ok")
           ELSE IF ev.t = "DocumentStart"
           THEN /\ parser' = anchors_clear(p)
                /\ Deliver(sent, ev)
                /\ ld' = [ld EXCEPT !.pc = "node"]
           ELSE LoadPanic(anchors_clear(p)))
    /\ UNCHANGED <<patience, shared>>

\* One event of the node loops: load_document's node, load_sequence and
\* load_mapping, each around load_node.
LoadNode ==
    /\ Alive
    /\ ld.pc = "node"
    /\ LoadNext(LAMBDA p, ev, mark :
           LET closes == /\ ld.frames # <<>>
                         /\ \/ Top(ld.frames) = "seq" /\ ev.t = "SequenceEnd"
                            \/ Top(ld.frames) = "key" /\ ev.t = "MappingEnd"
           IN
           CASE closes ->
                  /\ parser' = p
                  /\ Deliver(sent, ev)
                  /\ ld' = NodeDone([ld EXCEPT !.frames = Pop(@)])
             [] ~closes /\ ev.t \in { "Alias", "Scalar" } ->
                  /\ parser' = p
                  /\ Deliver(sent, ev)
                  /\ ld' = NodeDone(ld)
             [] ~closes /\ ev.t = "SequenceStart" ->
                  /\ parser' = p
                  /\ Deliver(sent, ev)
                  /\ ld' = [ld EXCEPT !.frames = Append(@, "seq")]
             [] ~closes /\ ev.t = "MappingStart" ->
                  /\ parser' = p
                  /\ Deliver(sent, ev)
                  /\ ld' = [ld EXCEPT !.frames = Append(@, "key")]
             [] OTHER -> LoadPanic(p))
    /\ UNCHANGED <<patience, shared>>

\* The end of load_document (DOCUMENT-END is expected) and the end of the
\* loop of load: "if !multi { break }".
LoadDocumentEnd ==
    /\ Alive
    /\ ld.pc = "docend"
    /\ LoadNext(LAMBDA p, ev, mark :
           IF ev.t = "DocumentEnd"
           THEN /\ parser' = p
                /\ Deliver(sent, ev)
                /\ ld' = after_document(ld)
           ELSE LoadPanic(p))
    /\ UNCHANGED <<patience, shared>>

\* The caller calls allow_aliases(value) on a settings object or on a clone
\* of it.
SetAliases ==
    /\ \E k \in { "std", "safe" }, by \in { "object", "clone" }, value \in BOOLEAN :
         shared' = [data |-> [j \in { "std", "safe" } |->
                                IF j = k THEN allow_aliases(shared.data[j], value)
                                ELSE shared.data[j]],
                    last |-> [j \in { "std", "safe" } |->
                                [f \in { "allow_aliases", "allow_multi_doc" } |->
                                   IF j = k /\ f = "allow_aliases"
                                   THEN [value |-> value, by |-> by]
                                   ELSE shared.last[j][f]]]]
    /\ UNCHANGED <<parser, ld, sent, res, obs, patience, loader>>

\* The caller calls allow_multi_doc(value) on a settings object or on a
\* clone of it.
SetMultiDoc ==
    /\ \E k \in { "std", "safe" }, by \in { "object", "clone" }, value \in BOOLEAN :
         shared' = [data |-> [j \in { "std", "safe" } |->
                                IF j = k THEN allow_multi_doc(shared.data[j], value)
                                ELSE shared.data[j]],
                    last |-> [j \in { "std", "safe" } |->
                                [f \in { "allow_aliases", "allow_multi_doc" } |->
                                   IF j = k /\ f = "allow_multi_doc"
                                   THEN [value |-> value, by |-> by]
                                   ELSE shared.last[j][f]]]]
    /\ UNCHANGED <<parser, ld, sent, res, obs, patience, loader>>

\* The pull interface: the caller calls next() and peek() in any order.
Next ==
    \/ NextCall
    \/ PeekCall

\* The push interface: the caller calls load(), again and again.
NextLoad ==
    \/ LoadBegin
    \/ LoadDocument
    \/ LoadNode
    \/ LoadDocumentEnd

\* Pulling, dropping the parser at the first error.
Spec == Init /\ [][Next]_vars

\* Pulling, going on after an error.
SpecRetry == InitRetry /\ [][Next]_vars

\* Loading, dropping the parser at the first error.
SpecLoad == Init /\ [][NextLoad]_vars

\* yaml_load_from_str_with_settings: load_from_iter with a YamlLoader.
SpecYaml == InitYaml /\ [][NextLoad]_vars

\* The styles of a scalar (TScalarStyle).
ScalarStyles == { "Plain", "SingleQuoted", "DoubleQuoted", "Literal" }

\* load_from_iter on a document that is one scalar without anchor, of any
\* text, style and tag: load hands DocumentStart, the Scalar and DocumentEnd
\* to the loader and returns Ok at the end of the stream.  res keeps the
\* Scalar event.
LoadScalar ==
    /\ Idle
    /\ loader.live
    /\ ld.calls = 0
    /\ \E text \in Texts, style \in ScalarStyles, tag \in Tags :
         LET ev == Ev("Scalar", 0, text, style, tag)
         IN /\ loader' = [k \in { "live", "std", "safe" } |->
                            IF k = "live" THEN loader.live
                            ELSE YamlLoader_on_event(
                                     YamlLoader_on_event(
                                         YamlLoader_on_event(loader[k],
                                                             Bare("DocumentStart")),
                                         ev),
                                     Bare("DocumentEnd"))]
            /\ res' = [NoResult EXCEPT !.kind = "ok", !.ev = ev]
            /\ ld' = ld_idle(ld_call(ld, TRUE), "ok")
    /\ UNCHANGED <<parser, sent, obs, patience, shared>>

NextScalar == LoadScalar

\* yaml_load_from_str on the one-scalar documents.
SpecScalar == InitYaml /\ [][NextScalar]_vars

\* The caller sets up its settings objects, in any order.
NextSettings ==
    \/ SetAliases
    \/ SetMultiDoc

SpecSettings == Init /\ [][NextSettings]_vars

\* The caller calls allow_aliases(value) through one of its handles on the
\* settings it built the loader from: the object or a clone of it.  The
\* setter writes the data behind the handle; the loader reads its settings
\* field, which YamlLoader::new made with settings.clone(), so it sees the
\* write when that clone points at the data written.
SetAliasesShared ==
    /\ Idle
    /\ ld.calls = 0
    /\ \E k \in { "std", "safe" }, by \in { "object", "clone" }, value \in BOOLEAN :
         LET v == IF by = "object" THEN k ELSE settings_clone(k)
             data == [j \in { "std", "safe" } |->
                        IF j = v THEN allow_aliases(shared.data[j], value)
                        ELSE shared.data[j]]
         IN /\ shared' = [data |-> data,
                          last |-> [j \in { "std", "safe" } |->
                                      [f \in { "allow_aliases", "allow_multi_doc" } |->
                                         IF j = k /\ f = "allow_aliases"
                                         THEN [value |-> value, by |-> by]
                                         ELSE shared.last[j][f]]]]
            /\ loader' = [j \in { "live", "std", "safe" } |->
                            IF j = "live" THEN loader.live
                            ELSE IF settings_clone(j) \in DOMAIN data
                                 THEN [loader[j] EXCEPT !.settings = data[settings_clone(j)]]
                                 ELSE loader[j]]
    /\ UNCHANGED <<parser, ld, sent, res, obs, patience>>

\* The same with allow_multi_doc(value).
SetMultiDocShared ==
    /\ Idle
    /\ ld.calls = 0
    /\ \E k \in { "std", "safe" }, by \in { "object", "clone" }, value \in BOOLEAN :
         LET v == IF by = "object" THEN k ELSE settings_clone(k)
             data == [j \in { "std", "safe" } |->
                        IF j = v THEN allow_multi_doc(shared.data[j], value)
                        ELSE shared.data[j]]
         IN /\ shared' = [data |-> data,
                          last |-> [j \in { "std", "safe" } |->
                                      [f \in { "allow_aliases", "allow_multi_doc" } |->
                                         IF j = k /\ f = "allow_multi_doc"
                                         THEN [value |-> value, by |-> by]
                                         ELSE shared.last[j][f]]]]
            /\ loader' = [j \in { "live", "std", "safe" } |->
                            IF j = "live" THEN loader.live
                            ELSE IF settings_clone(j) \in DOMAIN data
                                 THEN [loader[j] EXCEPT !.settings = data[settings_clone(j)]]
                                 ELSE loader[j]]
    /\ UNCHANGED <<parser, ld, sent, res, obs, patience>>

\* load_from_iter on "[&a v, *a]": load hands DocumentStart, SequenceStart,
\* the anchored Scalar, the Alias, SequenceEnd and DocumentEnd to the loader
\* and returns Ok at the end of the stream.  res keeps the Alias event.
LoadAlias ==
    /\ Idle
    /\ loader.live
    /\ ld.calls = 0
    /\ loader' = [k \in { "live", "std", "safe" } |->
                    IF k = "live" THEN loader.live
                    ELSE LET l1 == YamlLoader_on_event(loader[k], Bare("DocumentStart"))
                             l2 == YamlLoader_on_event(l1, Start("SequenceStart", 0))
                             l3 == YamlLoader_on_event(l2, Ev("Scalar", 1, "v", "Plain", ""))
                             l4 == YamlLoader_on_event(l3, Start("Alias", 1))
                             l5 == YamlLoader_on_event(l4, Bare("SequenceEnd"))
                         IN YamlLoader_on_event(l5, Bare("DocumentEnd"))]
    /\ res' = [NoResult EXCEPT !.kind = "ok", !.ev = Start("Alias", 1)]
    /\ ld' = ld_idle(ld_call(ld, TRUE), "ok")
    /\ UNCHANGED <<parser, sent, obs, patience, shared>>

\* The caller builds a loader from its settings objects, goes on setting
\* flags through the objects and their clones, and then loads.
NextShared ==
    \/ SetAliasesShared
    \/ SetMultiDocShared
    \/ LoadAlias

SpecShared == InitYaml /\ [][NextShared]_vars

\* The caller mixes the two interfaces: it calls next() and peek() in any
\* order and then goes over to load(), which it calls again and again on the
\* same parser.
NextAny ==
    \/ ld.calls = 0 /\ parser.scanner.n < MaxPulled /\ NextCall
    \/ ld.calls = 0 /\ parser.scanner.n < MaxPulled /\ PeekCall
    \/ LoadBegin
    \/ LoadDocument
    \/ LoadNode
    \/ LoadDocumentEnd

SpecAny == Init /\ [][NextAny]_vars

\* The last call of next() inside load_from_iter returned an event and load
\* handed it to the loader.
Delivered == loader.live /\ res.kind = "ok" /\ ld.ret # "panic"

\* ------------------------------------------------------------------------
\* Claims
\* ------------------------------------------------------------------------

\* C1: as long as next() has returned no error, every event it has returned
\* fits the brackets open at that point: StreamStart comes first and only
\* once, every DocumentEnd / SequenceEnd / MappingEnd closes the innermost
\* open bracket and that bracket is of its own kind, no node lies outside a
\* document, and at StreamEnd nothing but the stream is open.
C1_Balanced ==
    obs.errs = 0 /\ res.kind # "panic" =>
        /\ ~obs.bad
        /\ (obs.done => obs.nest = <<>>)
        /\ (obs.nest # <<>> => obs.nest[1].k = "stream")

\* C1 witness: StreamEnd was reached without an error after a sequence and
\* a mapping with a pair were opened and closed.
C1_Witness ==
    /\ obs.done /\ obs.errs = 0 /\ ~obs.bad /\ obs.nest = <<>>
    /\ obs.closed = { "seq", "pairs" }

\* C2: as long as next() has returned no error, every MappingEnd closes a
\* mapping that holds whole key/value pairs: its direct children are an even
\* number of node subtrees.
C2_KeyValuePairs == obs.errs = 0 => ~obs.odd

\* C2 witness: a MappingEnd has just closed a mapping that holds at least
\* one key and its value, with no error before.
C2_Witness ==
    /\ res.kind = "ok" /\ res.ev.t = "MappingEnd"
    /\ obs.errs = 0 /\ "pairs" \in obs.closed /\ ~obs.odd

\* C3: in any parser state, peek(); peek(); next() hands out three times the
\* same value (event, marker or error), that value is the one next() alone
\* would have returned on the same input, and the parser is left as next()
\* alone would have left it, so that the events after it are the same.
C3_PeekIdempotent ==
    Alive =>
        \A o1 \in peek(parser) : \A o2 \in peek(o1.p) : \A o3 \in next(o2.p) :
            LET Same(x, y) == /\ x.kind = y.kind /\ x.ev = y.ev
                              /\ x.mark = y.mark /\ x.msg = y.msg
            IN /\ Same(o1, o2)
               /\ Same(o2, o3)
               /\ \E o \in next(parser) : Same(o, o3) /\ o.p = o3.p

\* C4: a load(recv, false) that returns Ok, no load(recv, true) having been
\* called before, has dispatched whole events only (nothing left open) and
\*   - as the first call: StreamStart first, and then either the events of
\*     one document (DocumentStart, one root node subtree, DocumentEnd as the
\*     last event) or, for a stream without documents, StreamEnd;
\*   - as a later call: either exactly the next document, DocumentStart first
\*     and DocumentEnd last with one root node subtree, or StreamEnd alone.
C4_LoadSingleDocument ==
    ld.pc = "idle" /\ ld.ret = "ok" /\ ld.single /\ ld.calls > 0 =>
        /\ sent.depth = 0
        /\ IF ld.calls = 1
           THEN /\ sent.first = "StreamStart"
                /\ \/ /\ sent.docs = 1 /\ sent.roots = 1
                      /\ sent.last = "DocumentEnd"
                   \/ /\ sent.docs = 0 /\ sent.roots = 0
                      /\ sent.last = "StreamEnd"
           ELSE \/ /\ sent.docs = 1 /\ sent.roots = 1
                   /\ sent.first = "DocumentStart" /\ sent.last = "DocumentEnd"
                \/ /\ sent.docs = 0 /\ sent.roots = 0
                   /\ sent.first = "StreamEnd" /\ sent.last = "StreamEnd"

\* C4 witness: the second load(recv, false) has returned Ok after
\* dispatching a document, the second one of the stream.
C4_Witness ==
    /\ ld.pc = "idle" /\ ld.ret = "ok" /\ ld.single /\ ld.calls = 2
    /\ sent.docs = 1 /\ sent.first = "DocumentStart" /\ sent.last = "DocumentEnd"

\* C5: a call that looks an alias name up in the anchor registry returns,
\* when the name is not bound at the time of the call, the error "while
\* parsing node, found unknown anchor" at the marker of the alias token (the
\* last token the scanner produced) and no event; when the name is bound it
\* returns Alias(id) with the id bound at the time of the call.
C5_AliasLookup ==
    [][res'.met # "" =>
          IF parser.anchors[res'.met] = 0
          THEN /\ res'.kind = "err"
               /\ res'.msg = "while parsing node, found unknown anchor"
               /\ res'.ev = NoEv
               /\ res'.mark = parser'.scanner.tmark
          ELSE /\ res'.kind = "ok"
               /\ res'.ev = Start("Alias", parser.anchors[res'.met])
               /\ res'.mark = parser'.scanner.tmark]_vars

\* C5 witness: an alias was looked up while the registry held a binding for
\* another name only, and the call returned the unknown-anchor error.
C5_Witness ==
    /\ res.met # "" /\ res.kind = "err"
    /\ res.msg = "while parsing node, found unknown anchor"
    /\ parser.anchors[res.met] = 0
    /\ \E n \in Names : parser.anchors[n] > 0

\* C6: as long as no call has failed, the k-th node that carries an anchor
\* carries the id k (ids are 1, 2, 3, ... in the order of the anchors, none
\* twice), the next id to hand out is one more than the number of anchored
\* nodes, the registry binds every name to the id of the last node anchored
\* with it, and an alias event carries that id.
C6_AnchorIds ==
    obs.errs = 0 =>
        /\ parser.next_anchor_id = obs.nanch + 1
        /\ (res.kind = "ok" /\ IsAnchored(res.ev) => res.ev.a = obs.nanch)
        /\ \A n \in Names : parser.anchors[n] = obs.bind[n]
        /\ (res.kind = "ok" /\ res.met # "" =>
                res.ev = Start("Alias", obs.bind[res.met]))

\* C6 witness: one name was anchored twice (ids 1 and 2), the other name
\* never, and an alias of that name has just been returned with id 2.
C6_Witness ==
    /\ res.kind = "ok" /\ res.met # "" /\ res.ev = Start("Alias", 2)
    /\ obs.nanch = 2 /\ obs.errs = 0
    /\ \E n \in Names : n # res.met /\ obs.bind[n] = 0

\* C7: an alias whose name has not been anchored since the DocumentStart of
\* the current document fails with the unknown-anchor error, also when the
\* events are pulled with next() / peek().
C7_RegistryClearedPerDocument ==
    res.met # "" /\ res.met \notin obs.docnames =>
        /\ res.kind = "err"
        /\ res.msg = "while parsing node, found unknown anchor"

\* C8: as long as no call has failed, every Alias(id) event comes after a
\* Scalar, SequenceStart or MappingStart event of the same document that
\* carries the anchor id.
C8_AliasAfterAnchor == obs.errs = 0 => ~obs.orphan

\* C9: once next() or peek() has returned an error, no later call of next()
\* or peek() returns an event.
C9_ErrorsAreFatal == obs.errs > 0 => res.kind # "ok"

\* C10: the marker of every event is at or after the marker of the event
\* before it, the events whose marker is the scanner's position included.
C10_MarkersNonDecreasing == obs.errs = 0 => ~obs.back

\* C11: with aliases allowed the loader never panics, every anchor id in
\* its registry is bound to a node of the builder that is never touched again
\* and equals the node that was inserted with that anchor as it was when it
\* was inserted, and an Alias(id) event for such an id inserts a node equal to
\* it (a copy: the registered node remains).
C11_AliasClones ==
    loader.live =>
        /\ ~loader.std.panic
        /\ \A id \in DOMAIN loader.std.anchor_map :
              /\ id \in DOMAIN loader.std.seen
              /\ has_node(loader.std.builder, loader.std.anchor_map[id])
              /\ loader.std.builder.nodes[loader.std.anchor_map[id]]
                    = loader.std.seen[id]
        /\ (Delivered /\ res.ev.t = "Alias" /\ res.ev.a \in DOMAIN loader.std.seen =>
              /\ loader.std.op.node = loader.std.seen[res.ev.a]
              /\ res.ev.a \in DOMAIN loader.std.anchor_map)

\* C11 witness: "[&a v, *a": the alias of an anchored scalar has just been
\* added to the sequence as a String equal to the anchored one, which is
\* still in the registry.
C11_Witness ==
    /\ Delivered /\ res.ev = Start("Alias", 1)
    /\ loader.std.op = Op("item", Yaml("String", 0, << "v" >>, << >>), BadValue)
    /\ loader.std.seen[1] = loader.std.op.node
    /\ loader.std.builder.nodes[loader.std.anchor_map[1]] = loader.std.op.node

\* C12: under the safe settings the load never panics, nothing is stored in
\* the anchor registry, every Alias event inserts a BadValue, and every event
\* inserts its node in the same position (root, item, key or value of a
\* pair) as with aliases allowed, a Scalar event the same node.
C12_SafeAliases ==
    loader.live =>
        /\ ~loader.safe.panic
        /\ loader.safe.anchor_map = << >>
        /\ (Delivered /\ res.ev.t = "Alias" => loader.safe.op.node = BadValue)
        /\ loader.safe.op.kind = loader.std.op.kind
        /\ (Delivered /\ res.ev.t = "Scalar" =>
              loader.safe.op.node = loader.std.op.node)

\* C13: the loader never panics, a plain scalar tagged !!int whose text is
\* not an integer is inserted as BadValue, and it stays where it was
\* inserted: in an input without anchors (where no alias makes a BadValue)
\* every child of a mapping gets the role, key or value, of its position.
C13_IllTypedInPlace ==
    loader.live =>
        /\ ~loader.std.panic /\ ~loader.safe.panic
        /\ (/\ Delivered /\ res.ev.t = "Scalar" /\ res.ev.st = "Plain"
            /\ res.ev.tg = "!!int" /\ ~parse_i64(Chars(res.ev.v)).ok
            => loader.std.op.node = BadValue)
        /\ (obs.nanch = 0 => ~loader.std.shift)

\* C17: with either settings every child of a mapping is given the role of
\* its position, key, value, key, value, ..., and every add_to_mapping call
\* pairs a value with the child just before it: n pairs are n calls in
\* order, nothing dropped or shifted.
C17_PairsInOrder ==
    loader.live => ~loader.std.shift /\ ~loader.safe.shift

\* C18: when load_from_iter has returned Ok under the safe settings, whose
\* is_multi_doc_allowed() is false, the builder holds at most one document.
C18_SafeSingleDocument ==
    /\ loader.live /\ ld.pc = "idle" /\ ld.ret = "ok"
    /\ ~is_multi_doc_allowed(loader.safe.settings)
    => Len(into_documents(loader.safe.builder)) <= 1

\* C14: an untagged plain scalar loads as the kind the Core schema rules
\* give its text: 0x + hex digits, 0o + octal digits, '+' + digits and
\* signed decimal digits are Integer; .inf, -.inf, .nan, +.inf and their
\* spellings and every text that parses as a float are Real; ~ and null are
\* Null; true and false are Boolean; every other text is String.  Both
\* loaders give the same node.
C14_CoreSchema ==
    LET cs == Chars(res.ev.v)
        digits(ds, radix) ==
            ds # << >> /\ \A i \in 1..Len(ds) : to_digit(ds[i]) < radix
        integer ==
            \/ starts_with(cs, << "0", "x" >>) /\ digits(From(cs, 3), 16)
            \/ starts_with(cs, << "0", "o" >>) /\ digits(From(cs, 3), 8)
            \/ starts_with(cs, << "+" >>) /\ digits(From(cs, 2), 10)
            \/ starts_with(cs, << "-" >>) /\ digits(From(cs, 2), 10)
            \/ digits(cs, 10)
        real ==
            \/ cs \in { Chars(".inf"), Chars("+.inf"), Chars("-.inf"), Chars(".nan") }
            \/ parse_float(cs).ok
        kind == CASE integer -> "Integer"
                  [] ~integer /\ real -> "Real"
                  [] ~integer /\ ~real /\ cs \in { Chars("~"), Chars("null") } -> "Null"
                  [] ~integer /\ ~real /\ cs \in { Chars("true"), Chars("false") } ->
                       "Boolean"
                  [] OTHER -> "String"
    IN /\ loader.live /\ res.ev.t = "Scalar" /\ ld.pc = "idle" /\ ld.ret = "ok"
       /\ res.ev.st = "Plain" /\ res.ev.tg = ""
       => /\ Len(loader.std.builder.docs) = 1
          /\ loader.std.builder.docs[1].k = kind
          /\ loader.safe.builder.docs = loader.std.builder.docs

\* C15: a scalar that is not plain loads as the String of its text whatever
\* its tag; a plain scalar tagged !!bool, !!int, !!float or !!null loads as
\* Boolean, Integer, Real or Null when its text is one of that type and as
\* BadValue otherwise; a plain scalar with another tag loads as the String
\* of its text.
C15_StyleThenTag ==
    LET cs == Chars(res.ev.v)
        tg == res.ev.tg
        doc == loader.std.builder.docs[1]
        String == Yaml("String", 0, cs, << >>)
    IN loader.live /\ res.ev.t = "Scalar" /\ ld.pc = "idle" /\ ld.ret = "ok" =>
       /\ Len(loader.std.builder.docs) = 1
       /\ res.ev.st # "Plain" => doc = String
       /\ res.ev.st = "Plain" =>
            /\ tg \in { "!!str", "!t" } => doc = String
            /\ tg = "!!bool" =>
                 doc.k = IF cs \in { Chars("true"), Chars("false") }
                         THEN "Boolean" ELSE "BadValue"
            /\ tg = "!!int" =>
                 doc.k = IF parse_i64(cs).ok THEN "Integer" ELSE "BadValue"
            /\ tg = "!!float" =>
                 doc.k = IF parse_f64(cs).ok THEN "Real" ELSE "BadValue"
            /\ tg = "!!null" =>
                 doc.k = IF cs \in { Chars("~"), Chars("null") }
                         THEN "Null" ELSE "BadValue"

\* C15 witness: the double-quoted scalar "42" tagged !!int has been loaded
\* as the String "42".
C15_Witness ==
    /\ loader.live /\ ld.pc = "idle" /\ ld.ret = "ok"
    /\ res.ev = Ev("Scalar", 0, "42", "DoubleQuoted", "!!int")
    /\ loader.std.builder.docs = << Yaml("String", 0, << "4", "2" >>, << >>) >>

\* C16: a scalar that loads as Real holds the text of the scalar unchanged.
C16_RealKeepsText ==
    /\ loader.live /\ res.ev.t = "Scalar" /\ ld.pc = "idle" /\ ld.ret = "ok"
    /\ Len(loader.std.builder.docs) = 1
    /\ loader.std.builder.docs[1].k = "Real"
    => loader.std.builder.docs[1].cs = Chars(res.ev.v)

\* C19: once the scanner has produced a FlowSequenceEnd or FlowMappingEnd
\* token that closes no open flow collection, the parser never emits
\* StreamEnd: the stream does not parse.
C19_StrayFlowEnd ==
    parser.scanner.stray => ~obs.done

\* C20: while the first load(recv, true) on a new parser is running, the
\* next() it is about to call has the outcomes, event and marker or error,
\* that next() has at this point for a caller who pulled the same events
\* from a new parser over the same tokens (that caller's parser differs in
\* the anchor registry only, which then binds each name to the id of its
\* last anchored node), and load hands every event on: it does not panic.
C20_LoadDispatchesNext ==
    LET pulled == [parser EXCEPT !.anchors = obs.bind]
    IN ld.calls = 1 /\ ld.multi =>
          /\ ld.ret # "panic"
          /\ (ld.pc # "idle" /\ Alive =>
                { Result(o) : o \in next(parser) } = { Result(o) : o \in next(pulled) })

\* The states of the parser inside a mapping or a sequence, and for each the
\* state that parses the position after the one it parses.
PositionAfter(state) ==
    CASE state \in { "BlockMappingFirstKey", "BlockMappingKey" } -> "BlockMappingValue"
      [] state = "BlockMappingValue" -> "BlockMappingKey"
      [] state \in { "FlowMappingFirstKey", "FlowMappingKey" } -> "FlowMappingValue"
      [] state \in { "FlowMappingValue", "FlowMappingEmptyValue" } -> "FlowMappingKey"
      [] state \in { "BlockSequenceFirstEntry", "BlockSequenceEntry" } -> "BlockSequenceEntry"
      [] state = "IndentlessSequenceEntry" -> "IndentlessSequenceEntry"
      [] state = "FlowSequenceEntryMappingKey" -> "FlowSequenceEntryMappingValue"
      [] state = "FlowSequenceEntryMappingValue" -> "FlowSequenceEntryMappingEnd"
      [] OTHER -> ""

\* The call that began at token t1 and ended with outcome o made a node
\* where the input has none: it consumed neither an anchor nor a tag, and
\* the Scalar event it returns is marked at a token that is no scalar.
NodeMissing(t1, o) ==
    /\ o.kind = "ok" /\ o.ev.t = "Scalar" /\ o.reg = "" /\ o.ev.tg = ""
    /\ \/ o.p.token # NoTok /\ o.p.token.mark = o.mark
       \/ t1.mark = o.mark /\ t1.tt # "Scalar"

\* The call in state `state` found t1, consumed it, and stopped at the
\* token after it, left in the lookahead of q: 'a:' before a Key, Value or
\* BlockEnd, '-' before '-' or BlockEnd; or it found a flow key with ',' or
\* '}' where its value should begin.
NothingFollows(state, q1, t1, q) ==
    \/ /\ state = "BlockMappingValue" /\ t1.tt = "Value"
       /\ q.scanner.n = q1.scanner.n + 1 /\ q.token # NoTok
       /\ q.token.tt \in { "Key", "Value", "BlockEnd" }
    \/ /\ state = "BlockSequenceEntry" /\ t1.tt = "BlockEntry"
       /\ q.scanner.n = q1.scanner.n + 1 /\ q.token # NoTok
       /\ q.token.tt \in { "BlockEntry", "BlockEnd" }
    \/ /\ state \in { "FlowMappingValue", "FlowMappingEmptyValue" }
       /\ t1.tt \in { "FlowEntry", "FlowMappingEnd" }

\* C21: wherever a mapping key, a mapping value or a sequence entry is
\* missing the parser returns exactly the empty scalar (value "~", Plain, no
\* anchor, no tag) and goes on to the next position, so the position gets one
\* node; 'a:' before a Key, Value or BlockEnd token, '-' before '-' or
\* BlockEnd and a flow key before ',' or '}' are such places; and the loader
\* inserts the empty scalar as Null.
C21_EmptyScalarForMissingNode ==
    /\ PositionAfter(parser.state) # "" =>
         \A r1 \in peek_token(parser) : r1.kind = "ok" =>
            \A o \in state_machine(r1.p) :
               /\ NothingFollows(parser.state, r1.p, r1.tok, o.p) =>
                     NodeMissing(r1.tok, o)
               /\ NodeMissing(r1.tok, o) =>
                     /\ o.ev = empty_scalar
                     /\ o.p.state = PositionAfter(parser.state)
    /\ Delivered /\ res.ev = empty_scalar =>
         /\ loader.std.op.node = Yaml("Null", 0, << >>, << >>)
         /\ loader.safe.op.node = Yaml("Null", 0, << >>, << >>)

\* C21 witness: "v:" at the end of a block mapping: the empty scalar was
\* returned for the missing value and the loader has paired the key "v" with
\* Null.
C21_Witness ==
    /\ Delivered /\ res.ev = empty_scalar
    /\ parser.state = "BlockMappingKey"
    /\ parser.token # NoTok /\ parser.token.tt = "BlockEnd"
    /\ loader.std.op = Op("pair", Yaml("Null", 0, << >>, << >>),
                          Yaml("String", 0, << "v" >>, << >>))

\* C22: parse_node called with any flags on a reachable parser, t1 the first
\* token it looks at, k the tokens it scanned after t1 and t the token it
\* left in the lookahead.  When t starts no node content (no Scalar, no flow
\* collection start, no block collection start unless block is false, no
\* BlockEntry unless indentless_sequence is false): with k = 0 the call fails
\* with "did not find expected node content", returns no event and leaves the
\* parser as it was; otherwise t1 is an Anchor or a Tag, at most one more
\* property of the other kind was consumed (k <= 2), and the call returns a
\* Plain Scalar event marked at t whose anchor is the id registered for the
\* Anchor consumed (None if none was) and whose tag is the Tag consumed (None
\* if none was), pops the state and does not consume t.
C22_PropertiesThenEmptyScalar ==
    \A block, indentless_sequence \in BOOLEAN :
      \A r1 \in peek_token(parser) : r1.kind = "ok" =>
        \A o \in parse_node(push_state(r1.p, "DocumentEnd"), block, indentless_sequence) :
          LET k == o.p.scanner.n - r1.p.scanner.n
              t == o.p.token
              content == \/ t.tt \in { "Scalar", "FlowSequenceStart", "FlowMappingStart" }
                         \/ block /\ t.tt \in { "BlockSequenceStart", "BlockMappingStart" }
                         \/ indentless_sequence /\ t.tt = "BlockEntry"
              anchored == IF r1.tok.tt = "Anchor" THEN TRUE ELSE k = 2
              tagged == IF r1.tok.tt = "Tag" THEN TRUE ELSE k = 2
          IN t # NoTok /\ ~content =>
               IF k = 0
               THEN /\ o.kind = "err" /\ o.ev = NoEv
                    /\ o.msg = "while parsing a node, did not find expected node content"
                    /\ o.p = push_state(r1.p, "DocumentEnd")
               ELSE /\ r1.tok.tt \in { "Anchor", "Tag" } /\ k <= 2
                    /\ o.kind = "ok" /\ o.ev.t = "Scalar" /\ o.ev.st = "Plain"
                    /\ o.mark = t.mark
                    /\ o.p.state = "DocumentEnd" /\ o.p.states = r1.p.states
                    /\ IF anchored
                       THEN /\ o.ev.a = parser.next_anchor_id
                            /\ o.reg \in Names /\ o.p.anchors[o.reg] = o.ev.a
                            /\ (r1.tok.tt = "Anchor" => o.reg = r1.tok.nm)
                       ELSE o.ev.a = 0 /\ o.reg = ""
                    /\ IF tagged
                       THEN o.ev.tg # "" /\ (r1.tok.tt = "Tag" => o.ev.tg = r1.tok.nm)
                       ELSE o.ev.tg = ""

\* C22 witness: "&a !!int" at the end of the stream: next() has returned the
\* scalar with anchor id 1 and the tag, marked at the StreamEnd token that
\* is still in the lookahead.
C22_Witness ==
    /\ res.kind = "ok" /\ res.ev = Ev("Scalar", 1, "", "Plain", "!!int")
    /\ parser.token # NoTok /\ parser.token.tt = "StreamEnd"
    /\ res.mark = parser.token.mark
    /\ parser.anchors["a"] = 1

\* C23: under load_from_iter, with either settings: between two documents
\* the builder holds one tree per DocumentStart / DocumentEnd pair, the last
\* of them the root that was inserted last; a node inserted into a sequence
\* is the last item of the innermost open collection; and no node is lost:
\* once a document is closed the builder's store holds no node but the
\* BadValue placeholders of pending keys and the clones of the anchor
\* registry.
C23_TreesInOrderNothingLost ==
    loader.live /\ Delivered =>
      \A k \in { "std", "safe" } :
        LET l == loader[k]
            b == l.builder
            inserted == res.ev.t \in { "Scalar", "Alias", "SequenceEnd", "MappingEnd" }
        IN /\ l.doc = 0 /\ sent.docs < 2 => Len(into_documents(b)) = sent.docs
           /\ res.ev.t = "DocumentEnd" =>
                /\ l.doc_stack = << >>
                /\ into_documents(b) # << >>
                /\ l.op.kind = "root"
                /\ into_documents(b)[Len(into_documents(b))] = l.op.node
                /\ \A h \in DOMAIN b.nodes :
                      \/ b.nodes[h] = BadValue
                      \/ \E id \in DOMAIN l.anchor_map : l.anchor_map[id] = h
           /\ inserted /\ l.op.kind = "item" =>
                /\ l.doc_stack # << >>
                /\ has_node(b, Top(l.doc_stack).node)
                /\ LET items == b.nodes[Top(l.doc_stack).node].items
                   IN items # << >> /\ items[Len(items)] = l.op.node

\* C24: a settings object made by new() allows aliases and multiple
\* documents, one made by new_safe() allows neither, and on every settings
\* object is_aliases_allowed() and is_multi_doc_allowed() return the value of
\* the last allow_aliases / allow_multi_doc call on the object (its clones
\* share its data), the constructor's value if there was none.
C24_SettingsGetters ==
    /\ is_aliases_allowed(settings_new) /\ is_multi_doc_allowed(settings_new)
    /\ ~is_aliases_allowed(settings_new_safe)
    /\ ~is_multi_doc_allowed(settings_new_safe)
    /\ \A k \in { "std", "safe" } :
          /\ is_aliases_allowed(shared.data[k]) = shared.last[k]["allow_aliases"].value
          /\ is_multi_doc_allowed(shared.data[k])
                = shared.last[k]["allow_multi_doc"].value
          /\ \A f \in { "allow_aliases", "allow_multi_doc" } :
                shared.last[k][f].by = "new" => shared.last[k][f].value = (k = "std")

\* C24 witness: on the object made by new_safe() aliases were switched on
\* and multiple documents were switched on and off again; on the object made
\* by new() multiple documents were switched off.
C24_Witness ==
    /\ shared.last["safe"]["allow_aliases"] = [value |-> TRUE, by |-> "object"]
    /\ shared.last["safe"]["allow_multi_doc"] = [value |-> FALSE, by |-> "object"]
    /\ shared.last["std"]["allow_multi_doc"] = [value |-> FALSE, by |-> "clone"]
    /\ is_aliases_allowed(shared.data["safe"])
    /\ ~is_multi_doc_allowed(shared.data["safe"])
    /\ is_aliases_allowed(shared.data["std"])
    /\ ~is_multi_doc_allowed(shared.data["std"])

\* C26: the parser is in state End exactly when it has produced StreamEnd,
\* and from then on every call of next() and of peek() returns Ok(StreamEnd)
\* marked at the scanner's position, pulls no token from the scanner, leaves
\* the state End, returns no error and does not reach the unreachable arm
\* of state_machine (whose outcome would be a panic).
C26_StreamEndForever ==
    /\ obs.done <=> parser.state = "End"
    /\ parser.state = "End" =>
         \A o \in next(parser) \cup peek(parser) :
            /\ o.kind = "ok" /\ o.ev = Bare("StreamEnd")
            /\ o.mark \in { scanner_mark(parser.scanner), parser.current.mark }
            /\ o.p.scanner = parser.scanner /\ o.p.token = parser.token
            /\ o.p.state = "End" /\ o.p.states = parser.states

\* C26 witness: StreamEnd was produced, the scanner had read one character
\* beyond it, and a further call has returned StreamEnd at that position
\* while peek() holds one more StreamEnd in the lookahead.
C26_Witness ==
    /\ parser.state = "End" /\ obs.done /\ stream_ended(parser.scanner)
    /\ res.kind = "ok" /\ res.ev = Bare("StreamEnd")
    /\ parser.scanner.ahead = 1 /\ res.mark = scanner_mark(parser.scanner)
    /\ parser.current = ParsedEventMarker(Bare("StreamEnd"), res.mark)

\* C27: document_end, called when a document's content is complete, returns
\* one DocumentEnd event, consumes the '...' token it finds (one at most)
\* and leaves the parser in state DocumentStart; document_start, called in
\* that state, returns no further DocumentEnd event: it consumes every
\* '...' token that follows (it stops at a '...' only behind a directive,
\* with an error), and when it returns Ok the event is DocumentStart or
\* StreamEnd, marked at the last token the scanner produced, so all the
\* '...' tokens before it are consumed.
C27_DocumentEndRun ==
    /\ res.kind = "ok" /\ res.ev.t = "DocumentEnd" => parser.state = "DocumentStart"
    /\ parser.state = "DocumentEnd" =>
         \A o \in state_machine(parser) :
            /\ o.p.token = NoTok \/ o.p.token.tt # "DocumentEnd"
            /\ o.kind = "err" => o.p.token = NoTok /\ o.p.state = "DocumentEnd"
            /\ o.kind = "ok" =>
                 /\ o.ev = Bare("DocumentEnd")
                 /\ o.p.state = "DocumentStart" /\ o.p.states = parser.states
                 /\ o.p.scanner.n <= parser.scanner.n + 1
    /\ parser.state = "DocumentStart" =>
         \A o \in state_machine(parser) :
            /\ o.kind # "panic"
            /\ o.p.token # NoTok /\ o.p.token.tt = "DocumentEnd" =>
                 \A r1 \in peek_token(parser) :
                    r1.kind = "ok" /\ o \in state_machine(r1.p) =>
                       /\ o.p.token # r1.tok
                       /\ \/ r1.tok.tt \in { "VersionDirective", "TagDirective" }
                          \/ o.p.scanner.n >= r1.p.scanner.n + 2
            /\ o.kind = "ok" =>
                 /\ o.ev.t \in { "DocumentStart", "StreamEnd" }
                 /\ o.p.token = NoTok /\ o.mark = o.p.scanner.tmark

\* C27 witness: document_end has consumed a '...' token and returned
\* DocumentEnd, the parser is in state DocumentStart, the next token is a
\* second '...' and the one after it a '---': the next call consumes both
\* and returns DocumentStart.
C27_Witness ==
    /\ res.kind = "ok" /\ res.ev = Bare("DocumentEnd")
    /\ parser.state = "DocumentStart" /\ parser.current = NoCur
    /\ parser.token = NoTok /\ res.mark = parser.scanner.tmark
    /\ \E r1 \in peek_token(parser) :
          /\ r1.kind = "ok" /\ r1.tok.tt = "DocumentEnd"
          /\ \E o \in next(r1.p) :
                /\ o.kind = "ok" /\ o.ev = Bare("DocumentStart")
                /\ o.p.token = NoTok
                /\ o.p.scanner.n = r1.p.scanner.n + 1

\* C28: the parser is in state ImplicitDocumentStart only right after
\* StreamStart, so only the first document can begin without '---'.  In
\* state DocumentStart (after a DocumentEnd event) a successful call returns
\* StreamEnd, or DocumentStart for a '---' token it consumed (state
\* DocumentContent), and a call that stops at a token fails with "did not
\* find expected <document start>" and the token is none of '---', '...' at
\* the head, or a directive.  In both states a call that begins at a
\* directive returns DocumentStart for a '---' or fails: directives are
\* followed by '---' or by an error, not by StreamEnd or an implicit
\* document.
C28_OnlyFirstDocumentImplicit ==
    /\ parser.state = "ImplicitDocumentStart" /\ res.kind = "ok" =>
          res.ev = Bare("StreamStart")
    /\ parser.state \in { "ImplicitDocumentStart", "DocumentStart" } =>
         \A r1 \in peek_token(parser) : r1.kind = "ok" =>
            \A o \in state_machine(r1.p) :
               LET explicit == \/ parser.state = "DocumentStart"
                               \/ r1.tok.tt \in { "VersionDirective", "TagDirective" }
               IN explicit =>
                    /\ o.kind # "panic"
                    /\ o.kind = "ok" =>
                         /\ o.p.token = NoTok /\ o.p.scanner.tmark = o.mark
                         /\ \/ /\ o.ev = Bare("StreamEnd") /\ o.p.state = "End"
                               /\ r1.tok.tt \in { "StreamEnd", "DocumentEnd" }
                            \/ /\ o.ev = Bare("DocumentStart")
                               /\ o.p.state = "DocumentContent"
                               /\ o.p.states = << "DocumentEnd" >>
                    /\ o.p.token # NoTok =>
                         /\ o.kind = "err" /\ o.ev = NoEv
                         /\ o.msg = "did not find expected <document start>"
                         /\ o.p.token.tt \notin
                               { "DocumentStart", "VersionDirective", "TagDirective" }
                         /\ o.p.state = parser.state /\ o.p.states = parser.states

\* C28 witness: after the DocumentEnd event of the first document the next
\* token is a scalar: next() has failed with "did not find expected
\* <document start>" and the scalar is still in the token slot.
C28_Witness ==
    /\ res.kind = "err" /\ res.msg = "did not find expected <document start>"
    /\ parser.state = "DocumentStart" /\ obs.nest = << Frame("stream", 0) >>
    /\ parser.token # NoTok /\ parser.token.tt = "Scalar"
    /\ res.mark = parser.token.mark

\* C29: a document without content gets the empty scalar as its root
\* (document_content at a directive, '---', '...' or StreamEnd returns it and
\* pops to DocumentEnd), load never finds another event where it expects a
\* node or the DocumentEnd, and so, with either settings, when the loader is
\* about to handle DocumentEnd its doc_stack holds exactly one frame, its
\* key_stack is empty and a document is open: neither the new_badvalue
\* branch nor an unreachable branch is taken; after DocumentEnd the
\* doc_stack is empty and the builder has the root as the document.
C29_OneRootPerDocument ==
    /\ parser.state = "DocumentContent" =>
         \A r1 \in peek_token(parser) :
            /\ r1.kind = "ok"
            /\ r1.tok.tt \in { "VersionDirective", "TagDirective", "DocumentStart",
                               "DocumentEnd", "StreamEnd" }
            => state_machine(r1.p) =
                  { OkOut([r1.p EXCEPT !.state = "DocumentEnd", !.states = << >>],
                          empty_scalar, r1.tok.mark) }
    /\ loader.live =>
         /\ ld.ret # "panic"
         /\ \A k \in { "std", "safe" } :
               /\ ~loader[k].panic
               /\ ld.pc = "docend" =>
                    /\ Len(loader[k].doc_stack) = 1
                    /\ loader[k].key_stack = << >>
                    /\ loader[k].doc # 0
               /\ Delivered /\ res.ev.t = "DocumentEnd" =>
                    /\ loader[k].doc_stack = << >> /\ loader[k].key_stack = << >>
                    /\ loader[k].doc = 0
                    /\ loader[k].op.kind = "root"
                    /\ into_documents(loader[k].builder) # << >>

\* C29 witness: "---" and nothing else: the document's root is the empty
\* scalar, loaded as Null, and DocumentEnd has closed the document with it.
C29_Witness ==
    /\ Delivered /\ res.ev = Bare("DocumentEnd")
    /\ stream_ended(parser.scanner) /\ parser.scanner.n = 3
    /\ into_documents(loader.std.builder) = << Yaml("Null", 0, << >>, << >>) >>
    /\ loader.std.doc_stack = << >>

\* C30: no call of next() or peek() ends in a panic, in particular no
\* pop_state() finds the continuation stack empty, and the stack is empty
\* whenever the parser is in state StreamStart, ImplicitDocumentStart,
\* DocumentStart or End.
C30_StackNeverUnderflows ==
    /\ res.kind # "panic"
    /\ \A o \in next(parser) \cup peek(parser) : o.kind # "panic"
    /\ parser.state \in { "StreamStart", "ImplicitDocumentStart", "DocumentStart", "End" }
          => parser.states = << >>

\* C30 witness: a stream with a sequence and a mapping of whole pairs has
\* been parsed to its end: states were pushed and popped again and the
\* stack is empty in state End.
C30_Witness ==
    /\ parser.state = "End" /\ parser.states = << >>
    /\ res.kind = "ok" /\ res.ev = Bare("StreamEnd")
    /\ obs.closed = { "seq", "pairs" } /\ obs.errs = 0

\* C31: after every call of next(), successful or not, and as long as the
\* events returned so far are balanced, the continuation stack of the parser
\* holds at most one entry more than there are collections open
\* (SequenceStart / MappingStart events not yet closed); in the loader that
\* load() feeds, doc_stack holds at most one entry more than there are
\* collections open and key_stack holds exactly one entry per open mapping.
C31_StacksBoundedByNesting ==
    LET open == Cardinality({ i \in DOMAIN obs.nest : obs.nest[i].k \in { "seq", "map" } })
        maps == Cardinality({ i \in DOMAIN obs.nest : obs.nest[i].k = "map" })
    IN ~obs.bad =>
         /\ Len(parser.states) <= open + 1
         /\ loader.live =>
              \A k \in { "std", "safe" } :
                 /\ ~loader[k].panic
                 /\ Len(loader[k].doc_stack) <= open + 1
                 /\ Len(loader[k].key_stack) = maps

\* C33: no call of load() ends in a failed assert_eq! or an unreachable!,
\* whatever calls of next(), peek() and load() came before it on the same
\* parser: it dispatches the remaining events or returns Err.
C33_LoadNeverPanics == ld.ret # "panic"

\* C32: on every token stream (finite: at most MaxTokens tokens) a caller
\* that goes on calling next() is handed a StreamEnd event or an error after
\* finitely many calls, and so a call of load(), which returns at either,
\* returns: the parser has no cycle of states that yields events for ever
\* without consuming a token.  Every call of next() that returns an event
\* before StreamEnd lowers a measure that is never negative and that peek()
\* never raises: the tokens not yet consumed, then the number of events the
\* state can still yield at the token it holds, then the event held back by
\* peek().  A running load(), whose every step is a call of next(), has seen
\* neither an error nor StreamEnd.
C32_Terminates ==
    LET left(p) == MaxTokens - p.scanner.n + (IF p.token = NoTok THEN 0 ELSE 1)
        yields(p) ==
            CASE p.state \in { "DocumentContent", "IndentlessSequenceEntry" } -> 3
              [] p.state \in { "ImplicitDocumentStart", "DocumentEnd",
                               "FlowSequenceEntryMappingValue" } -> 2
              [] p.state \in { "BlockNode", "DocumentStart", "FlowMappingValue",
                               "FlowMappingEmptyValue", "FlowSequenceEntryMappingKey",
                               "FlowSequenceEntryMappingEnd" } -> 1
              [] p.state = "BlockMappingKey" ->
                   IF p.token.tt \in { "None", "Value" } THEN 2 ELSE 0
              [] p.state = "BlockMappingValue" ->
                   IF p.token.tt = "Value" THEN 0 ELSE 1
              [] OTHER -> 0
        measure(p) == 2 * (4 * left(p) + yields(p)) + (IF p.current = NoCur THEN 0 ELSE 1)
    IN /\ measure(parser) >= 0
       /\ ld.pc # "idle" => (obs.errs = 0 /\ parser.state # "End")
       /\ (obs.errs = 0 /\ parser.state # "End") =>
            /\ \A o \in next(parser) :
                  /\ o.kind # "panic"
                  /\ o.kind = "ok" => measure(o.p) < measure(parser)
            /\ \A o \in peek(parser) :
                  /\ o.kind # "panic"
                  /\ o.kind = "ok" => measure(o.p) <= measure(parser)

\* A call that consumes no token and still yields an event: in a block
\* mapping, at a token that is no ':', the value of the pair is an empty
\* scalar and the token is left for block_mapping_key.
C32_Witness ==
    /\ parser.state = "BlockMappingValue"
    /\ parser.token # NoTok
    /\ parser.current = NoCur
    /\ \E o \in next(parser) :
         /\ o.kind = "ok"
         /\ o.ev = empty_scalar
         /\ o.p.token = parser.token
         /\ o.p.scanner = parser.scanner
         /\ o.p.state = "BlockMappingKey"

\* C34: whatever load() dispatches to the loader, with aliases allowed or
\* not, no unwrap of take_node / get_node fails and no unreachable! is hit
\* in the loader or in the standard builder; every handle the loader keeps
\* (anchor registry, key stack, doc stack) names a node that is still in the
\* builder's store, the registry's handles are copies that no stack holds,
\* and while load() expects a node inside a collection the innermost entry
\* of doc_stack is a sequence or a mapping.
C34_HandlesStayValid ==
    loader.live =>
      \A k \in { "std", "safe" } :
         LET l == loader[k]
             kept == { l.key_stack[i] : i \in DOMAIN l.key_stack }
                     \cup { l.doc_stack[i].node : i \in DOMAIN l.doc_stack }
             registered == { l.anchor_map[id] : id \in DOMAIN l.anchor_map }
         IN /\ ~l.panic
            /\ ~l.builder.panic
            /\ \A h \in kept \cup registered : has_node(l.builder, h)
            /\ kept \cap registered = {}
            /\ Cardinality(kept) = Len(l.key_stack) + Len(l.doc_stack)
            /\ (ld.pc = "node" /\ ld.frames = << >>) => l.doc_stack = << >>
            /\ (ld.pc = "node" /\ ld.frames # << >>) =>
                  /\ l.doc_stack # << >>
                  /\ get_node_kind(l.builder, Top(l.doc_stack).node)
                        \in { "Sequence", "Mapping" }

\* An alias was loaded as an item of a sequence: the item is a copy of the
\* registered node, which is still in the store, as is the anchored node's
\* own copy inside the parent.
C34_Witness ==
    /\ Delivered
    /\ res.ev.t = "Alias"
    /\ loader.std.op.kind = "item"
    /\ res.ev.a \in DOMAIN loader.std.anchor_map
    /\ has_node(loader.std.builder, loader.std.anchor_map[res.ev.a])
    /\ loader.std.op.node = loader.std.builder.nodes[loader.std.anchor_map[res.ev.a]]
    /\ loader.std.op.node.k # "BadValue"
    /\ loader.safe.op.node.k = "BadValue"
    /\ loader.safe.anchor_map = << >>

\* C35: with aliases allowed, whenever load() hands an Alias(id) event to the
\* loader, the anchor registry of the loader holds a node for id, and the
\* node inserted for the alias is a copy of it and not the BadValue of an
\* unknown id; this includes an alias inside the collection that carries the
\* anchor.
C35_AliasFindsCompletedNode ==
    (Delivered /\ res.ev.t = "Alias") =>
       /\ res.ev.a \in DOMAIN loader.std.anchor_map
       /\ loader.std.op.node
            = loader.std.builder.nodes[loader.std.anchor_map[res.ev.a]]

\* C36: as long as no call has failed, an indentless sequence is opened only
\* by a call made in a block mapping key or value state that stops at a
\* BlockEntry token, with the mapping's next state as continuation; so the
\* continuation of an indentless sequence is always BlockMappingKey or
\* BlockMappingValue.  In state IndentlessSequenceEntry a token that is no
\* BlockEntry yields SequenceEnd, marked at that token, and the token stays
\* in the slot for the block mapping state popped from the stack; at a
\* BlockEntry the sequence is not closed and the BlockEntry is consumed.
C36_IndentlessSequence ==
    LET mapping == { "BlockMappingKey", "BlockMappingValue" }
    IN obs.errs = 0 =>
       /\ parser.state = "IndentlessSequenceEntry" =>
             parser.states # << >> /\ Top(parser.states) \in mapping
       /\ \A i \in DOMAIN parser.states :
             parser.states[i] = "IndentlessSequenceEntry" =>
                i > 1 /\ parser.states[i - 1] \in mapping
       /\ parser.current = NoCur =>
             \A o \in next(parser) :
                (o.kind = "ok" /\ o.ev.t = "SequenceStart"
                   /\ o.p.state = "IndentlessSequenceEntry") =>
                      /\ parser.state \in mapping \cup { "BlockMappingFirstKey" }
                      /\ o.p.token.tt = "BlockEntry"
                      /\ Top(o.p.states)
                           = (IF parser.state = "BlockMappingValue"
                              THEN "BlockMappingKey" ELSE "BlockMappingValue")
       /\ (parser.current = NoCur /\ parser.state = "IndentlessSequenceEntry") =>
             \A r \in peek_token(parser) : r.kind = "ok" =>
                \A o \in next(r.p) :
                   IF r.tok.tt # "BlockEntry"
                   THEN /\ o.kind = "ok"
                        /\ o.ev = Bare("SequenceEnd")
                        /\ o.mark = r.tok.mark
                        /\ o.p.token = r.tok
                        /\ o.p.scanner = r.p.scanner
                        /\ o.p.state = Top(parser.states)
                        /\ o.p.states = Pop(parser.states)
                   ELSE /\ o.ev.t # "SequenceEnd"
                        /\ o.kind = "ok" => o.p.scanner.n > r.p.scanner.n

\* The sequence of ": - " ends at the Key token of the next pair: the token
\* is in the slot, the call returns SequenceEnd and leaves the token to
\* BlockMappingKey.
C36_Witness ==
    /\ obs.errs = 0
    /\ parser.current = NoCur
    /\ parser.state = "IndentlessSequenceEntry"
    /\ parser.token.tt = "Key"
    /\ \E o \in next(parser) :
         /\ o.ev = Bare("SequenceEnd")
         /\ o.p.token = parser.token
         /\ o.p.state = "BlockMappingKey"

\* C37: in a flow sequence, when the token after a Key is Value, FlowEntry
\* or FlowSequenceEnd, the call made in state FlowSequenceEntryMappingKey
\* returns the empty scalar that stands for the missing key and leaves that
\* token in the slot: the Value for flow_sequence_entry_mapping_value, which
\* takes the node after it as the pair's value, and the FlowEntry or
\* FlowSequenceEnd for the enclosing sequence.
C37_MissingKeyLeavesToken ==
    (obs.errs = 0 /\ parser.current = NoCur
       /\ parser.state = "FlowSequenceEntryMappingKey") =>
          \A r \in peek_token(parser) :
             (r.kind = "ok" /\ r.tok.tt \in { "Value", "FlowEntry", "FlowSequenceEnd" }) =>
                \A o \in next(r.p) :
                   /\ o.kind = "ok"
                   /\ o.ev = empty_scalar
                   /\ o.p.state = "FlowSequenceEntryMappingValue"
                   /\ o.p.token = r.tok
                   /\ o.p.scanner = r.p.scanner

\* C38: the settings object, its clones and the copy a loader made of it
\* when it was constructed hold the same data: after any calls of
\* allow_aliases and allow_multi_doc through the object or a clone, made
\* after the loader was constructed, the getters on the object and on the
\* loader's copy both return the value of the last call for their flag, and
\* the loader then loads by these flags: the alias of "[&a v, *a]" is the
\* anchored node if aliases were last switched on, BadValue if off.
C38_SettingsSharedByReference ==
    loader.live =>
      \A k \in { "std", "safe" } :
         /\ \A f \in { "allow_aliases", "allow_multi_doc" } :
               /\ shared.data[k][f] = shared.last[k][f].value
               /\ loader[k].settings[f] = shared.last[k][f].value
         /\ is_aliases_allowed(loader[k].settings) = is_aliases_allowed(shared.data[k])
         /\ is_multi_doc_allowed(loader[k].settings) = is_multi_doc_allowed(shared.data[k])
         /\ ld.calls > 0 =>
               /\ Len(into_documents(loader[k].builder)) = 1
               /\ Len(into_documents(loader[k].builder)[1].items) = 2
               /\ into_documents(loader[k].builder)[1].items[2]
                    = (IF shared.last[k]["allow_aliases"].value
                       THEN into_documents(loader[k].builder)[1].items[1]
                       ELSE BadValue)
               /\ into_documents(loader[k].builder)[1].items[1].k # "BadValue"

\* C38 witness: the loader built with new_safe() resolved the alias after
\* aliases were switched on through a clone, and the loader built with new()
\* put BadValue after they were switched off through the object.
C38_Witness ==
    /\ loader.live
    /\ ld.calls > 0
    /\ shared.last["safe"]["allow_aliases"] = [value |-> TRUE, by |-> "clone"]
    /\ shared.last["std"]["allow_aliases"] = [value |-> FALSE, by |-> "object"]
    /\ is_aliases_allowed(loader.safe.settings)
    /\ ~is_aliases_allowed(loader.std.settings)
    /\ into_documents(loader.safe.builder)[1].items[2].k # "BadValue"
    /\ into_documents(loader.std.builder)[1].items[2] = BadValue

====
